---- MODULE Spec2Model ----
(***************************************************************************)
(* A model of the higher_order_point library: scalar functions and point   *)
(* functions built by composition (src/src/math.rs, src/src/lib.rs) and    *)
(* evaluated at concrete parameters.                                        *)
(*                                                                          *)
(* A closure `Arc::new(move |x| ...)` is a record naming the place that    *)
(* built it and holding what it captured; Eval gives each record the body  *)
(* of its closure.  Numbers are f64 values: a finite value is m * 2^e with *)
(* m odd (or zero), and the arithmetic is IEEE 754 round-to-nearest-even.  *)
(***************************************************************************)
EXTENDS Integers, Sequences, FiniteSets, TLC

(***************************************************************************)
(* f64.  A finite value is s * M * 2^e with M odd (or zero) and below 2^53, *)
(* held as m = s * (M mod 2^26) and l = M div 2^26, so that m carries the   *)
(* sign and l = 0 for a short significand.  Operands whose significands    *)
(* have at most SigBits bits are combined with machine integers; longer    *)
(* ones go through exact arithmetic on naturals of any size (sequences of  *)
(* limbs) and one rounding to 53 bits.  Wide stands for an f64 result an   *)
(* operation of the model does not compute.  A zero has m = 0 and l = 0   *)
(* and keeps its sign in e: Zero (0.0) has e = 0, NegZero (-0.0) has       *)
(* e = -1.                                                                 *)
(***************************************************************************)
MANTISSA_DIGITS == 53
MAX_EXP == 1024
MIN_SUBNORMAL_EXP == -1074
SigBits == 12

Abs(n) == IF n < 0 THEN -n ELSE n
Sgn(n) == IF n < 0 THEN -1 ELSE IF n > 0 THEN 1 ELSE 0

RECURSIVE Pow2(_)
Pow2(n) == IF n <= 0 THEN 1 ELSE 2 * Pow2(n - 1)

RECURSIVE BitLen(_)
BitLen(n) == IF n <= 0 THEN 0 ELSE 1 + BitLen(n \div 2)

Zero == [k |-> "fin", m |-> 0, l |-> 0, e |-> 0]
NegZero == [k |-> "fin", m |-> 0, l |-> 0, e |-> -1]
NaN == [k |-> "nan", m |-> 0, l |-> 0, e |-> 0]
Wide == [k |-> "wide", m |-> 0, l |-> 0, e |-> 0]
Inf(s) == [k |-> "inf", m |-> s, l |-> 0, e |-> 0]

IsFinite(x) == x.k = "fin"
IsNaN(x) == x.k = "nan"
IsInf(x) == x.k = "inf"
IsWide(x) == x.k = "wide"
IsZero(x) == x.k = "fin" /\ x.m = 0

\* The sign bit of a finite or infinite value as 1 or -1, and the zero of
\* the sign s.
SignOf(x) == IF x.m # 0 THEN Sgn(x.m) ELSE IF x.e < 0 THEN -1 ELSE 1
ZeroOf(s) == IF s < 0 THEN NegZero ELSE Zero

\* m * 2^e with the factors of two moved from m into e.
RECURSIVE Normal(_, _)
Normal(m, e) ==
    IF m = 0 THEN Zero
    ELSE IF m % 2 = 0 THEN Normal(m \div 2, e + 1)
    ELSE [k |-> "fin", m |-> m, l |-> 0, e |-> e]

(***************************************************************************)
(* Naturals of any size: a sequence of limbs below LimbBase, least         *)
(* significant first, without leading zero limbs (zero is <<>>).           *)
(***************************************************************************)
LimbBits == 13
LimbBase == Pow2(LimbBits)

RECURSIVE NNorm(_)
NNorm(a) ==
    IF a = <<>> THEN <<>>
    ELSE IF a[Len(a)] = 0 THEN NNorm(SubSeq(a, 1, Len(a) - 1))
    ELSE a

RECURSIVE NFromInt(_)
NFromInt(n) ==
    IF n <= 0 THEN <<>> ELSE <<n % LimbBase>> \o NFromInt(n \div LimbBase)

RECURSIVE NToInt(_)
NToInt(a) == IF a = <<>> THEN 0 ELSE a[1] + LimbBase * NToInt(Tail(a))

RECURSIVE NAddC(_, _, _)
NAddC(a, b, c) ==
    IF a = <<>> /\ b = <<>> THEN NFromInt(c)
    ELSE LET t == (IF a = <<>> THEN 0 ELSE a[1]) + (IF b = <<>> THEN 0 ELSE b[1]) + c
         IN  <<t % LimbBase>>
             \o NAddC(IF a = <<>> THEN a ELSE Tail(a),
                      IF b = <<>> THEN b ELSE Tail(b), t \div LimbBase)
NAdd(a, b) == NAddC(a, b, 0)

\* a - b - c for a >= b + c, limb by limb with a borrow
RECURSIVE NSubB(_, _, _)
NSubB(a, b, c) ==
    IF a = <<>> THEN <<>>
    ELSE LET t == a[1] - (IF b = <<>> THEN 0 ELSE b[1]) - c
         IN  <<t % LimbBase>>
             \o NSubB(Tail(a), IF b = <<>> THEN b ELSE Tail(b),
                      IF t < 0 THEN 1 ELSE 0)
NSub(a, b) == NNorm(NSubB(a, b, 0))

\* -1, 0, 1 as a < b, a = b, a > b
RECURSIVE NCmpFrom(_, _, _)
NCmpFrom(a, b, i) ==
    IF i = 0 THEN 0
    ELSE IF a[i] < b[i] THEN -1
    ELSE IF a[i] > b[i] THEN 1
    ELSE NCmpFrom(a, b, i - 1)
NCmp(a, b) ==
    IF Len(a) < Len(b) THEN -1
    ELSE IF Len(a) > Len(b) THEN 1
    ELSE NCmpFrom(a, b, Len(a))

RECURSIVE NMulLimb(_, _, _)
NMulLimb(a, d, c) ==
    IF a = <<>> THEN NFromInt(c)
    ELSE LET t == a[1] * d + c
         IN  <<t % LimbBase>> \o NMulLimb(Tail(a), d, t \div LimbBase)

RECURSIVE NMul(_, _)
NMul(a, b) ==
    IF a = <<>> \/ b = <<>> THEN <<>>
    ELSE NNorm(NAdd(NMulLimb(a, b[1], 0), <<0>> \o NMul(a, Tail(b))))

\* a * 2^n and floor(a / 2^n)
NShl(a, n) ==
    IF a = <<>> THEN <<>>
    ELSE [i \in 1..(n \div LimbBits) |-> 0]
         \o NNorm(NMulLimb(a, Pow2(n % LimbBits), 0))
NShr(a, n) ==
    LET w == n \div LimbBits
        p == Pow2(n % LimbBits)
        b == IF w >= Len(a) THEN <<>> ELSE SubSeq(a, w + 1, Len(a))
    IN  NNorm([i \in 1..Len(b) |->
                  (b[i] \div p)
                  + (IF i < Len(b) THEN (b[i + 1] % p) * (LimbBase \div p) ELSE 0)])

NBitLen(a) ==
    IF a = <<>> THEN 0 ELSE LimbBits * (Len(a) - 1) + BitLen(a[Len(a)])
\* bit i of a, bit 0 being the least significant
NBit(a, i) ==
    IF i < 0 \/ i \div LimbBits >= Len(a) THEN 0
    ELSE (a[i \div LimbBits + 1] \div Pow2(i % LimbBits)) % 2
\* the low n bits of a are all zero
NLowZero(a, n) == n <= 0 \/ NShl(NShr(a, n), n) = a

\* the number of zero bits below the lowest one bit of a > 0: the zero limbs
\* below the lowest non-zero limb, and the zero bits of that limb
LowLimb(a) == CHOOSE i \in 1..Len(a) : a[i] # 0 /\ \A j \in 1..(i - 1) : a[j] = 0
LowBit(d) ==
    CHOOSE j \in 0..(LimbBits - 1) : d % Pow2(j + 1) # 0 /\ d % Pow2(j) = 0
NTrailingZeros(a) == LimbBits * (LowLimb(a) - 1) + LowBit(a[LowLimb(a)])

\* floor(sqrt(a)): the bits of the root from bit hi down to bit lo, r being
\* the bits above hi.  One bit is set when the square of the root with that
\* bit (c) does not exceed a; a range of bits is decided by its upper half
\* and then, on the result, by its lower half.
NSqrtBit(a, r, c) == IF NCmp(NMul(c, c), a) <= 0 THEN c ELSE r
RECURSIVE NSqrtBits(_, _, _, _)
RECURSIVE NSqrtLow(_, _, _, _)
NSqrtLow(a, r, hi, lo) ==
    IF r = <<>> THEN NSqrtBits(a, <<>>, hi, lo) ELSE NSqrtBits(a, r, hi, lo)
NSqrtBits(a, r, hi, lo) ==
    IF hi < lo THEN r
    ELSE IF hi = lo THEN NSqrtBit(a, r, NAdd(r, NShl(<<1>>, hi)))
    ELSE NSqrtLow(a, NSqrtBits(a, r, hi, (hi + lo) \div 2 + 1),
                  (hi + lo) \div 2, lo)
NSqrt(a) == NSqrtBits(a, <<>>, NBitLen(a) \div 2, 0)

\* floor(a / b) for b > 0: the bits of the quotient from bit hi down to bit
\* lo, q being the bits above hi and c the quotient with one more bit set
NDivBit(a, b, q, c) == IF NCmp(NMul(c, b), a) <= 0 THEN c ELSE q
RECURSIVE NDivBits(_, _, _, _, _)
RECURSIVE NDivLow(_, _, _, _, _)
NDivLow(a, b, q, hi, lo) ==
    IF q = <<>> THEN NDivBits(a, b, <<>>, hi, lo) ELSE NDivBits(a, b, q, hi, lo)
NDivBits(a, b, q, hi, lo) ==
    IF hi < lo THEN q
    ELSE IF hi = lo THEN NDivBit(a, b, q, NAdd(q, NShl(<<1>>, hi)))
    ELSE NDivLow(a, b, NDivBits(a, b, q, hi, (hi + lo) \div 2 + 1),
                 (hi + lo) \div 2, lo)
NDiv(a, b) == NDivBits(a, b, <<>>, NBitLen(a) - NBitLen(b), 0)

\* The magnitude M of a finite value, and the finite value s * M * 2^e for
\* an odd M below 2^53.
Magnitude(x) ==
    NNorm(<<Abs(x.m) % LimbBase, Abs(x.m) \div LimbBase>> \o NFromInt(x.l))
Pack(s, M, e) ==
    [k |-> "fin",
     m |-> s * NToInt(IF Len(M) <= 2 THEN M ELSE SubSeq(M, 1, 2)),
     l |-> IF Len(M) <= 2 THEN 0 ELSE NToInt(SubSeq(M, 3, Len(M))),
     e |-> e]
IsShort(x) == x.l = 0 /\ BitLen(Abs(x.m)) <= SigBits

\* The f64 nearest to s * (N + f) * 2^e, where 0 <= f < 1 and sticky = 1
\* says that f > 0: the bits below the 53rd (or below the subnormal step)
\* are dropped and the rest rounded to nearest, ties to even.  DropBits is
\* the number of bits dropped from an L-bit N; RoundDropped rounds at that
\* place, RoundUp carries the round-up and RoundPacked stores the result.
DropBits(L, e) ==
    IF L - MANTISSA_DIGITS > MIN_SUBNORMAL_EXP - e
    THEN (IF L - MANTISSA_DIGITS > 0 THEN L - MANTISSA_DIGITS ELSE 0)
    ELSE (IF MIN_SUBNORMAL_EXP - e > 0 THEN MIN_SUBNORMAL_EXP - e ELSE 0)
PackOdd(s, q, e, tz) == Pack(s, NShr(q, tz), e + tz)
RoundPacked(s, q, e) ==
    IF q = <<>> THEN ZeroOf(s)
    ELSE IF NBitLen(q) + e > MAX_EXP THEN Inf(s)
    ELSE PackOdd(s, q, e, NTrailingZeros(q))
RoundUp(s, q0, e, up) == RoundPacked(s, IF up THEN NAdd(q0, <<1>>) ELSE q0, e)
RoundDropped(s, N, e, sticky, drop) ==
    RoundUp(s, NShr(N, drop), e + drop,
            /\ drop > 0
            /\ NBit(N, drop - 1) = 1
            /\ (sticky = 1 \/ NBit(N, drop) = 1 \/ ~NLowZero(N, drop - 1)))
RoundNat(s, N, e, sticky) ==
    RoundDropped(s, N, e, sticky, DropBits(NBitLen(N), e))

\* The f64 nearest to the exact value m * 2^e (|m| < 2^31): overflow goes to
\* an infinity, a value below the smallest subnormal step is rounded to a
\* multiple of it (ties to even) and keeps its sign when that multiple is
\* zero.  NearestEven is a / p rounded to an integer; Held stores a
\* significand longer than SigBits bits as limbs; Subnormal rounds the odd
\* a * 2^-d steps of sign s, d >= 1: to zero below half a step (and at
\* half a step, the tie a = 1, d = 1), to one step when a is too long for
\* 2^d to be formed.
NearestEven(a, p) ==
    (a \div p)
    + (IF a % p > p \div 2 \/ (a % p = p \div 2 /\ (a \div p) % 2 = 1)
       THEN 1 ELSE 0)
Held(v) ==
    IF BitLen(Abs(v.m)) > SigBits
    THEN Pack(Sgn(v.m), NFromInt(Abs(v.m)), v.e)
    ELSE v
Subnormal(s, a, d) ==
    IF BitLen(a) < d \/ (a = 1 /\ d = 1) THEN ZeroOf(s)
    ELSE IF d > 30 THEN Normal(s, MIN_SUBNORMAL_EXP)
    ELSE Held(Normal(s * NearestEven(a, Pow2(d)), MIN_SUBNORMAL_EXP))
RoundNormal(n) ==
    IF n.m = 0 THEN Zero
    ELSE IF BitLen(Abs(n.m)) + n.e > MAX_EXP THEN Inf(Sgn(n.m))
    ELSE IF MIN_SUBNORMAL_EXP - n.e <= 0 THEN Held(n)
    ELSE Subnormal(Sgn(n.m), Abs(n.m), MIN_SUBNORMAL_EXP - n.e)
Round(m, e) == RoundNormal(Normal(m, e))

\* A small dyadic literal: n / 2^d.
F(n, d) == Round(n, -d)

\* -a: the sign bit flipped, that of a zero included
FNeg(x) ==
    IF IsZero(x) THEN ZeroOf(-SignOf(x))
    ELSE IF x.k \in {"fin", "inf"} THEN [x EXCEPT !.m = -x.m]
    ELSE x

\* The position above the leading bit of a finite non-zero value:
\* 2^(Top - 1) <= |x| < 2^Top.
Top(x) == NBitLen(Magnitude(x)) + x.e

\* The sum of two finite non-zero values through naturals of any size.  An
\* operand below a quarter of the last place of the other one cannot change
\* the rounded sum (AddFar, on the positions tx and ty above the leading
\* bits); otherwise the magnitudes are aligned at the smaller exponent e0
\* (AddScaled), added or subtracted exactly and rounded once (AddRounded,
\* c comparing the aligned magnitudes A and B).
AddRounded(sx, sy, A, B, e0, c) ==
    IF sx # sy /\ c = 0 THEN Zero
    ELSE RoundNat(IF sx = sy \/ c > 0 THEN sx ELSE sy,
                  IF sx = sy THEN NAdd(A, B)
                  ELSE IF c > 0 THEN NSub(A, B) ELSE NSub(B, A),
                  e0, 0)
AddAligned(sx, sy, A, B, e0) == AddRounded(sx, sy, A, B, e0, NCmp(A, B))
AddScaled(x, y, e0) ==
    AddAligned(Sgn(x.m), Sgn(y.m), NShl(Magnitude(x), x.e - e0),
               NShl(Magnitude(y), y.e - e0), e0)
AddFar(x, y, tx, ty) ==
    IF ty <= tx - (MANTISSA_DIGITS + 3) THEN x
    ELSE IF tx <= ty - (MANTISSA_DIGITS + 3) THEN y
    ELSE AddScaled(x, y, IF x.e <= y.e THEN x.e ELSE y.e)
AddLong(x, y) == AddFar(x, y, Top(x), Top(y))

\* The sum of two finite non-zero values, hi having the larger exponent.
\* When short operands overlap the sum is formed exactly in a machine
\* integer and rounded; any other sum goes through AddLong.
AddShort(hi, lo) ==
    IF IsShort(hi) /\ IsShort(lo)
       /\ BitLen(Abs(hi.m)) + hi.e - lo.e <= 2 * SigBits
    THEN Round(hi.m * Pow2(hi.e - lo.e) + lo.m, lo.e)
    ELSE AddLong(hi, lo)

AddFinite(x, y) ==
    AddShort(IF x.e >= y.e THEN x ELSE y, IF x.e >= y.e THEN y ELSE x)

\* a + b
FAdd(x, y) ==
    IF IsWide(x) \/ IsWide(y) THEN Wide
    ELSE IF IsNaN(x) \/ IsNaN(y) THEN NaN
    ELSE IF IsInf(x) /\ IsInf(y) THEN (IF x.m = y.m THEN x ELSE NaN)
    ELSE IF IsInf(x) THEN x
    ELSE IF IsInf(y) THEN y
    ELSE IF x.m = 0 THEN (IF y.m = 0 /\ x # y THEN Zero ELSE y)
    ELSE IF y.m = 0 THEN x
    ELSE AddFinite(x, y)

\* a - b
FSub(x, y) == FAdd(x, FNeg(y))

\* a * b: the product of two significands of at most SigBits bits is exact
\* in a machine integer; longer ones are multiplied as naturals of any size.
FMul(x, y) ==
    IF IsWide(x) \/ IsWide(y) THEN Wide
    ELSE IF IsNaN(x) \/ IsNaN(y) THEN NaN
    ELSE IF IsInf(x) \/ IsInf(y)
         THEN (IF IsZero(x) \/ IsZero(y) THEN NaN ELSE Inf(Sgn(x.m) * Sgn(y.m)))
    ELSE IF x.m = 0 \/ y.m = 0 THEN ZeroOf(SignOf(x) * SignOf(y))
    ELSE IF IsShort(x) /\ IsShort(y) THEN Round(x.m * y.m, x.e + y.e)
    ELSE RoundNat(Sgn(x.m) * Sgn(y.m), NMul(Magnitude(x), Magnitude(y)),
                  x.e + y.e, 0)

\* |x| < |y| for finite x and y; tx and ty are the positions above their
\* leading bits and lo is the smaller exponent.
MagLtAt(x, y, tx, ty, lo) ==
    IF tx # ty THEN tx < ty
    ELSE IF IsShort(x) /\ IsShort(y)
         THEN Abs(x.m) * Pow2(x.e - lo) < Abs(y.m) * Pow2(y.e - lo)
    ELSE NCmp(NShl(Magnitude(x), x.e - lo), NShl(Magnitude(y), y.e - lo)) < 0
MagLt(x, y) ==
    IF x.m = 0 THEN y.m # 0
    ELSE IF y.m = 0 THEN FALSE
    ELSE MagLtAt(x, y, Top(x), Top(y), IF x.e <= y.e THEN x.e ELSE y.e)

\* The quotient of two finite non-zero values through naturals of any size:
\* the dividend X is scaled by 2^sh until the integer quotient Q by Y has
\* more than 54 bits, and a non-zero remainder is the sticky bit of the
\* rounding.
DivRounded(s, A, Y, e, Q) ==
    RoundNat(s, Q, e, IF NMul(Q, Y) = A THEN 0 ELSE 1)
DivScaled(s, A, Y, e) == DivRounded(s, A, Y, e, NDiv(A, Y))
DivShifted(s, X, Y, e, sh) == DivScaled(s, NShl(X, sh), Y, e - sh)
DivMagnitudes(s, X, Y, e) ==
    DivShifted(s, X, Y, e,
               IF MANTISSA_DIGITS + 2 + NBitLen(Y) - NBitLen(X) > 0
               THEN MANTISSA_DIGITS + 2 + NBitLen(Y) - NBitLen(X) ELSE 0)
DivLong(x, y) ==
    DivMagnitudes(Sgn(x.m) * Sgn(y.m), Magnitude(x), Magnitude(y), x.e - y.e)

\* a / b: exact in machine integers when the operands are short and the
\* divisor's significand divides the dividend's.  Any other quotient is
\* rounded from the long division.
FDiv(x, y) ==
    IF IsWide(x) \/ IsWide(y) THEN Wide
    ELSE IF IsNaN(x) \/ IsNaN(y) THEN NaN
    ELSE IF IsInf(x)
         THEN (IF IsInf(y) THEN NaN
               ELSE Inf(x.m * SignOf(y)))
    ELSE IF IsInf(y) THEN ZeroOf(SignOf(x) * y.m)
    ELSE IF y.m = 0 THEN (IF x.m = 0 THEN NaN ELSE Inf(Sgn(x.m) * SignOf(y)))
    ELSE IF x.m = 0 THEN ZeroOf(SignOf(x) * Sgn(y.m))
    ELSE IF IsShort(x) /\ IsShort(y) /\ Abs(x.m) % Abs(y.m) = 0
         THEN Round(Sgn(x.m) * Sgn(y.m) * (Abs(x.m) \div Abs(y.m)), x.e - y.e)
    ELSE DivLong(x, y)

\* a < b (false when either side is NaN)
FLt(x, y) ==
    IF IsWide(x) \/ IsWide(y) \/ IsNaN(x) \/ IsNaN(y) THEN FALSE
    ELSE IF IsInf(x) THEN x.m < 0 /\ ~(IsInf(y) /\ y.m < 0)
    ELSE IF IsInf(y) THEN y.m > 0
    ELSE IF Sgn(x.m) # Sgn(y.m) THEN Sgn(x.m) < Sgn(y.m)
    ELSE IF x.m >= 0 THEN MagLt(x, y)
    ELSE MagLt(y, x)

\* a == b (f64's PartialEq: NaN equals nothing, 0.0 equals -0.0)
FEq(x, y) ==
    /\ ~IsNaN(x) /\ ~IsNaN(y) /\ ~IsWide(x) /\ ~IsWide(y)
    /\ (x = y \/ (IsZero(x) /\ IsZero(y)))

\* f64::floor: the whole part of the magnitude, one more for a negative
\* value with a fraction
FloorLong(s, W) == RoundNat(s, IF s > 0 THEN W ELSE NAdd(W, <<1>>), 0, 0)
FFloor(x) ==
    IF ~IsFinite(x) \/ x.m = 0 \/ x.e >= 0 THEN x
    ELSE IF ~IsShort(x) THEN FloorLong(Sgn(x.m), NShr(Magnitude(x), -x.e))
    ELSE IF -x.e >= SigBits THEN (IF x.m > 0 THEN Zero ELSE Normal(-1, 0))
    ELSE Round(x.m \div Pow2(-x.e), 0)

\* f64::sqrt: the integer root R of the significand X scaled by 2^sh to at
\* least 108 bits and an even exponent, rounded once; an inexact root is
\* the sticky bit.
SqrtRounded(A, R, e) == RoundNat(1, R, e, IF NMul(R, R) = A THEN 0 ELSE 1)
SqrtScaled(A, e) == SqrtRounded(A, NSqrt(A), e)
SqrtShifted(X, e, sh) == SqrtScaled(NShl(X, sh), (e - sh) \div 2)
SqrtEven(X, e, g) == SqrtShifted(X, e, g + ((e - g) % 2))
SqrtMagnitude(X, e) == SqrtEven(X, e, 2 * MANTISSA_DIGITS + 2 - NBitLen(X))
FSqrt(x) ==
    IF IsWide(x) THEN Wide
    ELSE IF IsNaN(x) THEN NaN
    ELSE IF x.m < 0 THEN NaN
    ELSE IF IsInf(x) \/ x.m = 0 THEN x
    ELSE SqrtMagnitude(Magnitude(x), x.e)

RECURSIVE Pow2Mod(_, _)
Pow2Mod(n, d) ==
    IF n <= 0 THEN 1 % d
    ELSE LET h == Pow2Mod(n \div 2, d)
         IN  IF n % 2 = 0 THEN (h * h) % d ELSE (2 * h * h) % d

\* A mod D and 2^n mod D on naturals of any size, D > 0.
NMod(A, D) == NSub(A, NMul(D, NDiv(A, D)))
NPow2ModStep(n, D, h) == NMod(NShl(NMul(h, h), n % 2), D)
RECURSIVE NPow2Mod(_, _)
NPow2Mod(n, D) ==
    IF n <= 0 THEN NMod(<<1>>, D)
    ELSE NPow2ModStep(n, D, NPow2Mod(n \div 2, D))

\* a % b on f64: the remainder of the division truncated toward zero, which
\* is exact and has the sign of a, also when it is zero.  RemShort stores
\* the remainder r * 2^e of short operands, RemLong forms it for |x| >= |y|
\* on naturals of any size.
RemShort(s, r, e) == IF r = 0 THEN ZeroOf(s) ELSE Round(s * r, e)
RemLong(x, X, Y, y) ==
    RoundNat(Sgn(x.m),
             IF x.e >= y.e THEN NMod(NMul(X, NPow2Mod(x.e - y.e, Y)), Y)
             ELSE NMod(X, NShl(Y, y.e - x.e)),
             IF x.e >= y.e THEN y.e ELSE x.e, 0)
FRem(x, y) ==
    IF IsWide(x) \/ IsWide(y) THEN Wide
    ELSE IF IsNaN(x) \/ IsNaN(y) \/ IsInf(x) \/ IsZero(y) THEN NaN
    ELSE IF IsInf(y) \/ IsZero(x) THEN x
    ELSE IF MagLt(x, y) THEN x
    ELSE IF ~(IsShort(x) /\ IsShort(y)) THEN RemLong(x, Magnitude(x), Magnitude(y), y)
    ELSE IF x.e >= y.e
         THEN RemShort(Sgn(x.m), (Abs(x.m) * Pow2Mod(x.e - y.e, Abs(y.m))) % Abs(y.m), y.e)
    ELSE RemShort(Sgn(x.m), Abs(x.m) % (Abs(y.m) * Pow2(y.e - x.e)), x.e)

\* f64::powi(2): one rounded product
FPowi2(x) == FMul(x, x)

\* 2 * pi as the code writes it
TAU == [k |-> "fin", m |-> 42501539, l |-> 13176794, e |-> -47]

\* f64::cos and f64::sin at the non-zero finite arguments the model
\* evaluates them at.  A row is <<u, cos u, sin u>>, each value written as
\* its m, l and e; cos u and sin u are the f64 values nearest to the cosine
\* and sine of the f64 value u.
TrigTable == <<
    <<-42501539, 13176794, 14,  21989317, 50540101, -52,  -40153437, 44150852, -52>>,
    <<-42501539, 13176794, 13,  32598105, 31415140, -51,  -57491985, 47157413, -53>>,
    <<-42501539, 13176794, -44,  1, 0, 0,  51665927, 74025356, -101>>,
    <<-27397039, 102120158, -47,  -12442771, 69410464, -100,  1, 0, 0>>,
    <<-58717475, 49412979, -46,  -1, 0, 0,  -66161443, 101808249, -100>>,
    <<-36627567, 47765880, -46,  -13212739, 95782614, -113,  -1, 0, 0>>,
    <<-29075317, 92237562, -47,  1, 0, 0,  39381059, 32386093, -100>>,
    <<-63332739, 22235840, -45,  -25990867, 64783879, -100,  1, 0, 0>>,
    <<-18733353, 21412291, -45,  -1, 0, 0,  54508189, 37036062, -100>>,
    <<-30753595, 82354966, -47,  -12632277, 74212432, -104,  -1, 0, 0>>,
    <<-60395753, 39530383, -46,  1, 0, 0,  38749445, 55519017, -101>>,
    <<-9502825, 75766569, -47,  -11969061, 120314589, -101,  1, 0, 0>>,
    <<-13233887, 283095, -39,  -1, 0, 0,  -13074385, 46277540, -99>>,
    <<-32085939, 8647271, -44,  -16074551, 37059447, -102,  -1, 0, 0>>,
    <<-11181103, 65883973, -47,  1, 0, 0,  64582409, 92531695, -102>>,
    <<-17055075, 31294887, -46,  -60097961, 27765354, -99,  1, 0, 0>>,
    <<-46969531, 118591151, -48,  -1, 0, 0,  -53402865, 10409815, -99>>,
    <<-12859381, 56001377, -47,  -57982065, 111131572, -103,  -1, 0, 0>>,
    <<-42501539, 13176794, -45,  1, 0, 0,  51665927, 74025356, -102>>,
    <<-58717475, 49412979, -47,  -66161443, 101808249, -101,  1, 0, 0>>,
    <<-29075317, 92237562, -48,  -1, 0, 0,  -39381059, 32386093, -101>>,
    <<-18733353, 21412291, -46,  -54508189, 37036062, -101,  -1, 0, 0>>,
    <<-60395753, 39530383, -47,  1, 0, 0,  38749445, 55519017, -102>>,
    <<-15796367, 38706834, -47,  31871401, 15500126, -50,  45001049, 102725801, -54>>,
    <<-9502825, 75766569, -48,  54500833, 47453132, -52,  41892823, 94906265, -53>>,
    <<-54521781, 74119469, -48,  45001055, 102725801, -54,  53644615, 124001011, -53>>,
    <<-13233887, 283095, -40,  -13074385, 46277540, -100,  1, 0, 0>>,
    <<-52917139, 17706317, -46,  -45001077, 102725801, -54,  60376737, 62000505, -52>>,
    <<-32085939, 8647271, -45,  -41892811, 94906265, -53,  54500839, 47453132, -52>>,
    <<-33271011, 67531072, -48,  -53644621, 124001011, -53,  56054945, 51362900, -53>>,
    <<-11181103, 65883973, -48,  -1, 0, 0,  -64582409, 92531695, -103>>,
    <<-45291253, 128473747, -49,  -53644611, 124001011, -53,  -28027485, 25681450, -52>>,
    <<-17055075, 31294887, -47,  -41892803, 94906265, -53,  -54500843, 47453132, -52>>,
    <<-39564553, 30471337, -47,  -45001057, 102725801, -54,  -53644615, 124001011, -53>>,
    <<-46969531, 118591151, -49,  53402865, 10409815, -100,  -1, 0, 0>>,
    <<-34949289, 57648476, -48,  45001075, 102725801, -54,  -53644611, 124001011, -53>>,
    <<-12859381, 56001377, -48,  54500837, 47453132, -52,  -41892815, 94906265, -53>>,
    <<-48647809, 108708555, -49,  60376739, 62000505, -52,  -56054961, 51362900, -53>>,
    <<-42501539, 13176794, -46,  1, 0, 0,  51665927, 74025356, -103>>,
    <<-27397039, 102120158, -49,  53644611, 124001011, -53,  56054969, 51362900, -53>>,
    <<-58717475, 49412979, -48,  27250417, 23726566, -51,  41892821, 94906265, -53>>,
    <<-36627567, 47765880, -48,  45001059, 102725801, -54,  60376739, 62000505, -52>>,
    <<-29075317, 92237562, -49,  -39381059, 32386093, -102,  1, 0, 0>>,
    <<-63332739, 22235840, -47,  -45001073, 102725801, -54,  53644611, 124001011, -53>>,
    <<-18733353, 21412291, -47,  -41892809, 94906265, -53,  40367037, 5931641, -49>>,
    <<-30753595, 82354966, -49,  -60376739, 62000505, -52,  28027481, 25681450, -52>>,
    <<-60395753, 39530383, -48,  -1, 0, 0,  -38749445, 55519017, -103>>,
    <<-9502825, 75766569, -49,  -53644611, 124001011, -53,  -40561303, 6420362, -50>>,
    <<-13233887, 283095, -41,  -41892805, 94906265, -53,  -27250421, 23726566, -51>>,
    <<-32085939, 8647271, -46,  -45001061, 102725801, -54,  -60376739, 62000505, -52>>,
    <<-11181103, 65883973, -49,  64582409, 92531695, -104,  -1, 0, 0>>,
    <<-17055075, 31294887, -48,  45001071, 102725801, -54,  -63742801, 31000252, -51>>,
    <<-46969531, 118591151, -50,  54500839, 47453132, -52,  -41892811, 94906265, -53>>,
    <<-12859381, 56001377, -49,  60376739, 62000505, -52,  -56054963, 51362900, -53>>,
    <<-42501539, 13176794, -47,  1, 0, 0,  51665927, 74025356, -104>>,
    <<-58717475, 49412979, -49,  63742801, 31000252, -51,  56054967, 51362900, -53>>,
    <<-29075317, 92237562, -50,  41892811, 94906265, -53,  54500839, 47453132, -52>>,
    <<-18733353, 21412291, -48,  45001063, 102725801, -54,  53644613, 124001011, -53>>,
    <<-60395753, 39530383, -49,  -38749445, 55519017, -104,  1, 0, 0>>,
    <<-13233887, 283095, -42,  -45001069, 102725801, -54,  63742801, 31000252, -51>>,
    <<-11181103, 65883973, -50,  -54500839, 47453132, -52,  27250419, 23726566, -51>>,
    <<-46969531, 118591151, -51,  -53644615, 124001011, -53,  45001057, 102725801, -54>>,
    <<-42501539, 13176794, -48,  -1, 0, 0,  -51665927, 74025356, -105>>,
    <<-29075317, 92237562, -51,  -60376739, 62000505, -52,  -45001061, 102725801, -54>>,
    <<-60395753, 39530383, -50,  -27250419, 23726566, -51,  -41892813, 94906265, -53>>,
    <<-11181103, 65883973, -51,  -56054961, 51362900, -53,  -60376739, 62000505, -52>>,
    <<-42501539, 13176794, -49,  51665927, 74025356, -106,  -1, 0, 0>>,
    <<-60395753, 39530383, -51,  28027481, 25681450, -52,  -60376739, 62000505, -52>>,
    <<-42501539, 13176794, -50,  41892813, 94906265, -53,  -27250419, 23726566, -51>>,
    <<-42501539, 13176794, -51,  60376739, 62000505, -52,  -45001059, 102725801, -54>>,
    <<42501539, 13176794, -51,  60376739, 62000505, -52,  45001059, 102725801, -54>>,
    <<42501539, 13176794, -50,  41892813, 94906265, -53,  27250419, 23726566, -51>>,
    <<60395753, 39530383, -51,  28027481, 25681450, -52,  60376739, 62000505, -52>>,
    <<42501539, 13176794, -49,  51665927, 74025356, -106,  1, 0, 0>>,
    <<11181103, 65883973, -51,  -56054961, 51362900, -53,  60376739, 62000505, -52>>,
    <<60395753, 39530383, -50,  -27250419, 23726566, -51,  41892813, 94906265, -53>>,
    <<29075317, 92237562, -51,  -60376739, 62000505, -52,  45001061, 102725801, -54>>,
    <<42501539, 13176794, -48,  -1, 0, 0,  51665927, 74025356, -105>>,
    <<46969531, 118591151, -51,  -53644615, 124001011, -53,  -45001057, 102725801, -54>>,
    <<11181103, 65883973, -50,  -54500839, 47453132, -52,  -27250419, 23726566, -51>>,
    <<13233887, 283095, -42,  -45001069, 102725801, -54,  -63742801, 31000252, -51>>,
    <<60395753, 39530383, -49,  -38749445, 55519017, -104,  -1, 0, 0>>,
    <<18733353, 21412291, -48,  45001063, 102725801, -54,  -53644613, 124001011, -53>>,
    <<29075317, 92237562, -50,  41892811, 94906265, -53,  -54500839, 47453132, -52>>,
    <<58717475, 49412979, -49,  63742801, 31000252, -51,  -56054967, 51362900, -53>>,
    <<42501539, 13176794, -47,  1, 0, 0,  -51665927, 74025356, -104>>,
    <<12859381, 56001377, -49,  60376739, 62000505, -52,  56054963, 51362900, -53>>,
    <<46969531, 118591151, -50,  54500839, 47453132, -52,  41892811, 94906265, -53>>,
    <<17055075, 31294887, -48,  45001071, 102725801, -54,  63742801, 31000252, -51>>,
    <<11181103, 65883973, -49,  64582409, 92531695, -104,  1, 0, 0>>,
    <<32085939, 8647271, -46,  -45001061, 102725801, -54,  60376739, 62000505, -52>>,
    <<13233887, 283095, -41,  -41892805, 94906265, -53,  27250421, 23726566, -51>>,
    <<9502825, 75766569, -49,  -53644611, 124001011, -53,  40561303, 6420362, -50>>,
    <<60395753, 39530383, -48,  -1, 0, 0,  38749445, 55519017, -103>>,
    <<30753595, 82354966, -49,  -60376739, 62000505, -52,  -28027481, 25681450, -52>>,
    <<18733353, 21412291, -47,  -41892809, 94906265, -53,  -40367037, 5931641, -49>>,
    <<63332739, 22235840, -47,  -45001073, 102725801, -54,  -53644611, 124001011, -53>>,
    <<29075317, 92237562, -49,  -39381059, 32386093, -102,  -1, 0, 0>>,
    <<36627567, 47765880, -48,  45001059, 102725801, -54,  -60376739, 62000505, -52>>,
    <<58717475, 49412979, -48,  27250417, 23726566, -51,  -41892821, 94906265, -53>>,
    <<27397039, 102120158, -49,  53644611, 124001011, -53,  -56054969, 51362900, -53>>,
    <<42501539, 13176794, -46,  1, 0, 0,  -51665927, 74025356, -103>>,
    <<48647809, 108708555, -49,  60376739, 62000505, -52,  56054961, 51362900, -53>>,
    <<12859381, 56001377, -48,  54500837, 47453132, -52,  41892815, 94906265, -53>>,
    <<34949289, 57648476, -48,  45001075, 102725801, -54,  53644611, 124001011, -53>>,
    <<46969531, 118591151, -49,  53402865, 10409815, -100,  1, 0, 0>>,
    <<39564553, 30471337, -47,  -45001057, 102725801, -54,  53644615, 124001011, -53>>,
    <<17055075, 31294887, -47,  -41892803, 94906265, -53,  54500843, 47453132, -52>>,
    <<45291253, 128473747, -49,  -53644611, 124001011, -53,  28027485, 25681450, -52>>,
    <<11181103, 65883973, -48,  -1, 0, 0,  64582409, 92531695, -103>>,
    <<33271011, 67531072, -48,  -53644621, 124001011, -53,  -56054945, 51362900, -53>>,
    <<32085939, 8647271, -45,  -41892811, 94906265, -53,  -54500839, 47453132, -52>>,
    <<52917139, 17706317, -46,  -45001077, 102725801, -54,  -60376737, 62000505, -52>>,
    <<13233887, 283095, -40,  -13074385, 46277540, -100,  -1, 0, 0>>,
    <<54521781, 74119469, -48,  45001055, 102725801, -54,  -53644615, 124001011, -53>>,
    <<9502825, 75766569, -48,  54500833, 47453132, -52,  -41892823, 94906265, -53>>,
    <<15796367, 38706834, -47,  31871401, 15500126, -50,  -45001049, 102725801, -54>>,
    <<60395753, 39530383, -47,  1, 0, 0,  -38749445, 55519017, -102>>,
    <<18733353, 21412291, -46,  -54508189, 37036062, -101,  1, 0, 0>>,
    <<29075317, 92237562, -48,  -1, 0, 0,  39381059, 32386093, -101>>,
    <<58717475, 49412979, -47,  -66161443, 101808249, -101,  -1, 0, 0>>,
    <<42501539, 13176794, -45,  1, 0, 0,  -51665927, 74025356, -102>>,
    <<12859381, 56001377, -47,  -57982065, 111131572, -103,  1, 0, 0>>,
    <<46969531, 118591151, -48,  -1, 0, 0,  53402865, 10409815, -99>>,
    <<17055075, 31294887, -46,  -60097961, 27765354, -99,  -1, 0, 0>>,
    <<11181103, 65883973, -47,  1, 0, 0,  -64582409, 92531695, -102>>,
    <<32085939, 8647271, -44,  -16074551, 37059447, -102,  1, 0, 0>>,
    <<13233887, 283095, -39,  -1, 0, 0,  13074385, 46277540, -99>>,
    <<9502825, 75766569, -47,  -11969061, 120314589, -101,  -1, 0, 0>>,
    <<60395753, 39530383, -46,  1, 0, 0,  -38749445, 55519017, -101>>,
    <<30753595, 82354966, -47,  -12632277, 74212432, -104,  1, 0, 0>>,
    <<18733353, 21412291, -45,  -1, 0, 0,  -54508189, 37036062, -100>>,
    <<63332739, 22235840, -45,  -25990867, 64783879, -100,  -1, 0, 0>>,
    <<29075317, 92237562, -47,  1, 0, 0,  -39381059, 32386093, -100>>,
    <<36627567, 47765880, -46,  -13212739, 95782614, -113,  1, 0, 0>>,
    <<58717475, 49412979, -46,  -1, 0, 0,  66161443, 101808249, -100>>,
    <<27397039, 102120158, -47,  -12442771, 69410464, -100,  -1, 0, 0>>,
    <<42501539, 13176794, -44,  1, 0, 0,  -51665927, 74025356, -101>>,
    <<42501539, 13176794, 13,  32598105, 31415140, -51,  57491985, 47157413, -53>>,
    <<42501539, 13176794, 14,  21989317, 50540101, -52,  40153437, 44150852, -52>>,
    <<2978661, 70276238, -51,  -67108863, 33554431, -52,  5786795, 116235962, -53>>,
    <<2978661, 70276238, -50,  -1, 16777216, -51,  -17500565, 14529495, -50>>,
    <<35977375, 7686463, -47,  -2893399, 58117981, -52,  -67108853, 134217727, -54>>,
    <<20872875, 96629827, -50,  17500565, 14529495, -50,  -1, 16777216, -51>>
>>
\* The row of the table T for the argument u, <<>> when there is none
TrigMatch(T, u) ==
    {i \in 1..Len(T) : T[i][1] = u.m /\ T[i][2] = u.l /\ T[i][3] = u.e}
TrigPick(T, I) == IF I = {} THEN <<>> ELSE T[CHOOSE i \in I : TRUE]
TrigLookup(T, u) == TrigPick(T, TrigMatch(T, u))
TrigRow(u) == TrigLookup(TrigTable, u)
CosOf(row) ==
    IF row = <<>> THEN Wide
    ELSE [k |-> "fin", m |-> row[4], l |-> row[5], e |-> row[6]]
SinOf(row) ==
    IF row = <<>> THEN Wide
    ELSE [k |-> "fin", m |-> row[7], l |-> row[8], e |-> row[9]]

\* f64::cos
FCos(u) ==
    IF IsWide(u) THEN Wide
    ELSE IF ~IsFinite(u) THEN NaN
    ELSE IF u.m = 0 THEN Normal(1, 0)
    ELSE CosOf(TrigRow(u))

\* f64::sin
FSin(u) ==
    IF IsWide(u) THEN Wide
    ELSE IF ~IsFinite(u) THEN NaN
    ELSE IF u.m = 0 THEN u
    ELSE SinOf(TrigRow(u))

(***************************************************************************)
(* Scalar functions (src/src/math.rs).  Func<T, f64> is an Arc'd closure:  *)
(* a constructor returns the record of what the closure captured, and the  *)
(* operator named <constructor>_fn is the closure's body.  Eval applies a  *)
(* closure to an argument.  A pair (a, b) is <<a, b>>, a [f64; 2] array p  *)
(* is <<p[0], p[1]>>.                                                       *)
(***************************************************************************)
\* Arc<dyn Fn>: the closures live in cells of the heap and a Func is a
\* handle on a cell.  Arc::new(c) puts the closure c in a fresh cell,
\* Arc::clone gives the same cell again, and calling a handle runs the
\* closure its cell holds.  A closure written in place, as an operand of a
\* constructor, is a cell nobody else holds.
VARIABLE heap

RECURSIVE Eval(_, _)
Arc(i) == [fn |-> "Arc", at |-> i]
Arc_fn(i, x) == Eval(heap[i], x)

f64_1 == [k |-> "fin", m |-> 1, l |-> 0, e |-> 0]
f64_2 == [k |-> "fin", m |-> 1, l |-> 0, e |-> 1]

add(a, b) == [fn |-> "add", a |-> a, b |-> b]
add_fn(a, b, x) == FAdd(Eval(a, x), Eval(b, x))

sub(a, b) == [fn |-> "sub", a |-> a, b |-> b]
sub_fn_rev(a, b, x) == FSub(Eval(b, x), Eval(a, x))
sub_fn(a, b, x) == FSub(Eval(a, x), Eval(b, x))

lift_right(f) == [fn |-> "lift_right", f |-> f]
lift_right_fn(f, x) == Eval(f, x[1])

lift_left(f) == [fn |-> "lift_left", f |-> f]
lift_left_fn(f, x) == Eval(f, x[2])

id == [fn |-> "id"]
id_fn(x) == x

step == [fn |-> "step"]
step_fn_le(x) ==
    IF IsWide(x) THEN Wide ELSE IF FLt(x, Zero) \/ IsZero(x) THEN Zero ELSE f64_1
step_fn(x) == IF IsWide(x) THEN Wide ELSE IF FLt(x, Zero) THEN Zero ELSE f64_1

floor == [fn |-> "floor"]
floor_fn_trunc(x) == IF x.m < 0 THEN FNeg(FFloor(FNeg(x))) ELSE FFloor(x)
floor_fn(x) == FFloor(x)

zero == [fn |-> "zero"]
zero_fn(x) == Zero

one == [fn |-> "one"]
one_fn(x) == f64_1

k(v) == [fn |-> "k", v |-> v]
k_fn(v, x) == v

zip(a, b) == [fn |-> "zip", a |-> a, b |-> b]
zip_fn(a, b, t) ==
    IF IsWide(t) THEN Wide
    ELSE IF FLt(FRem(t, f64_2), f64_1)
    THEN Eval(a, FAdd(FRem(t, f64_1), FFloor(FDiv(t, f64_2))))
    ELSE Eval(b, FAdd(FRem(t, f64_1), FFloor(FDiv(FSub(t, f64_1), f64_2))))

map(a, f) == [fn |-> "map", a |-> a, f |-> f]
map_fn(a, f, x) == Eval(a, Eval(f, x))

\* The closures the crate's own tests and constructors write in place.
neg == [fn |-> "neg"]
neg_fn(t) == FNeg(t)

floor_plus_one == [fn |-> "floor_plus_one"]
floor_plus_one_fn(x) == FAdd(FFloor(x), f64_1)

if_bool(v, w) == [fn |-> "if_bool", v |-> v, w |-> w]
if_bool_fn(v, w, b) == IF b THEN v ELSE w

(***************************************************************************)
(* Points (src/src/lib.rs).  Point<()> has three f64 fields; PointFunc<T>  *)
(* = Point<Arg<T>> has three Func<T, f64> fields.  A [f64; 3] array is     *)
(* [arr |-> <<a0, a1, a2>>].                                                *)
(***************************************************************************)
Point(x, y, z) == [x |-> x, y |-> y, z |-> z]
Array3(a0, a1, a2) == [arr |-> <<a0, a1, a2>>]

IsF64(v) == "k" \in DOMAIN v
IsFunc(v) == "fn" \in DOMAIN v
IsArray(v) == "arr" \in DOMAIN v
IsPoint(v) == "x" \in DOMAIN v /\ IsF64(v.x)
IsPointFunc(v) == "x" \in DOMAIN v /\ IsFunc(v.x)

\* <f64 as Call<T>>::call(&f, val) of higher_order_core: the function applied.
call_f64(f, val) == Eval(f, val)

Point_call_yz(f, val) ==
    Point(call_f64(f.x, val), call_f64(f.z, val), call_f64(f.y, val))
\* impl Call<T> for Point: each of the fields x, y, z called at val
Point_call(f, val) == [c \in {"x", "y", "z"} |-> call_f64(f[c], val)]

\* PointFunc::call
PointFunc_call(p, val) == Point_call(p, val)

\* impl Dot for Point
Point_dot(a, b) ==
    FAdd(FAdd(FMul(a.x, b.x), FMul(a.y, b.y)), FMul(a.z, b.z))

\* impl Dot for PointFunc<T>
PointFunc_dot(p, q) == [fn |-> "PointFunc_dot", p |-> p, q |-> q]
PointFunc_dot_fn_xy(p, q, a) ==
    FAdd(FMul(Eval(p.x, a), Eval(q.x, a)), FMul(Eval(p.y, a), Eval(q.y, a)))
PointFunc_dot_fn(p, q, a) ==
    FAdd(FAdd(FMul(Eval(p.x, a), Eval(q.x, a)),
              FMul(Eval(p.y, a), Eval(q.y, a))),
         FMul(Eval(p.z, a), Eval(q.z, a)))

\* impl Cross for Point
Point_cross(a, b) ==
    Point(FSub(FMul(a.y, b.z), FMul(a.z, b.y)),
          FSub(FMul(a.z, b.x), FMul(a.x, b.z)),
          FSub(FMul(a.x, b.y), FMul(a.y, b.x)))

\* impl Cross for PointFunc<T>
PointFunc_cross(p, q) ==
    Point([fn |-> "cross_x", p |-> p, q |-> q],
          [fn |-> "cross_y", p |-> p, q |-> q],
          [fn |-> "cross_z", p |-> p, q |-> q])
cross_x_fn(p, q, v) ==
    FSub(FMul(Eval(p.y, v), Eval(q.z, v)), FMul(Eval(p.z, v), Eval(q.y, v)))
cross_y_fn_rev(p, q, v) ==
    FSub(FMul(Eval(p.x, v), Eval(q.z, v)), FMul(Eval(p.z, v), Eval(q.x, v)))
cross_y_fn(p, q, v) ==
    FSub(FMul(Eval(p.z, v), Eval(q.x, v)), FMul(Eval(p.x, v), Eval(q.z, v)))
cross_z_fn(p, q, v) ==
    FSub(FMul(Eval(p.x, v), Eval(q.y, v)), FMul(Eval(p.y, v), Eval(q.x, v)))

\* PointFunc::lift_right, PointFunc::lift_left
PointFunc_lift_right(p) ==
    Point([fn |-> "PointFunc_lift_right", f |-> p.x],
          [fn |-> "PointFunc_lift_right", f |-> p.y],
          [fn |-> "PointFunc_lift_right", f |-> p.z])
PointFunc_lift_right_fn(f, v) == Eval(f, v[1])

PointFunc_lift_left(p) ==
    Point([fn |-> "PointFunc_lift_left", f |-> p.x],
          [fn |-> "PointFunc_lift_left", f |-> p.y],
          [fn |-> "PointFunc_lift_left", f |-> p.z])
PointFunc_lift_left_fn_first(f, v) == Eval(f, v[1])
PointFunc_lift_left_fn(f, v) == Eval(f, v[2])

PointFunc_map_xx(p, f) ==
    Point([fn |-> "PointFunc_map", a |-> p.x, f |-> f],
          [fn |-> "PointFunc_map", a |-> p.x, f |-> f],
          [fn |-> "PointFunc_map", a |-> p.z, f |-> f])
\* impl Map<T, U> for PointFunc<T>
PointFunc_map(p, f) ==
    Point([fn |-> "PointFunc_map", a |-> p.x, f |-> f],
          [fn |-> "PointFunc_map", a |-> p.y, f |-> f],
          [fn |-> "PointFunc_map", a |-> p.z, f |-> f])
PointFunc_map_fn(a, f, v) == Eval(a, Eval(f, v))

\* PointFunc<f64>::x, ::y, ::z: the axis rays, whose own component is the
\* closure |v| v.
axis == [fn |-> "axis"]
axis_fn(v) == v
PointFunc_x == Point(axis, zero, zero)
PointFunc_y == Point(zero, axis, zero)
PointFunc_z == Point(zero, zero, axis)

\* PointFunc<f64>::zig_zag, ::zag_zig
\* Point::circle: the angle is in turns
circle_x == [fn |-> "circle_x"]
circle_x_fn_radians(ang) == FCos(ang)
circle_x_fn(ang) == FCos(FMul(ang, TAU))
circle_y == [fn |-> "circle_y"]
circle_y_fn(ang) == FSin(FMul(ang, TAU))
circle == Point(circle_x, circle_y, zero)

\* Norm: the length of a Point, and of a PointFunc at each argument
Point_norm(a) == FSqrt(FAdd(FAdd(FMul(a.x, a.x), FMul(a.y, a.y)), FMul(a.z, a.z)))
PointFunc_norm(p) == [fn |-> "PointFunc_norm", p |-> p]
PointFunc_norm_fn(p, v) ==
    FSqrt(FAdd(FAdd(FPowi2(Eval(p.x, v)), FPowi2(Eval(p.y, v))),
               FPowi2(Eval(p.z, v))))

zig_zag_flat == Point(zip(id, floor), zip(floor, id), zero)
zig_zag == Point(zip(id, floor_plus_one), zip(floor, id), zero)
zag_zig == Point(zip(floor, id), zip(id, floor_plus_one), zero)

\* impl Diff for PointFunc<f64>
PointFunc_diff(p, eps) ==
    Point([fn |-> "diff", f |-> p.x, eps |-> eps],
          [fn |-> "diff", f |-> p.y, eps |-> eps],
          [fn |-> "diff", f |-> p.z, eps |-> eps])
diff_fn_backward(f, eps, t) ==
    FDiv(FSub(Eval(f, t), Eval(f, FSub(t, eps))), eps)
diff_fn(f, eps, t) == FDiv(FSub(Eval(f, FAdd(t, eps)), Eval(f, t)), eps)

\* impl From<Point> for [f64; 3], impl Into<Point> for [f64; 3],
\* impl Into<PointFunc<T>> for [f64; 3]
array_from_Point(val) == Array3(val.x, val.y, val.z)
Point_from_array_zyx(u) == Point(u.arr[3], u.arr[2], u.arr[1])
Point_from_array(u) == Point(u.arr[1], u.arr[2], u.arr[3])
const(v) == [fn |-> "const", v |-> v]
const_fn(v, x) == v
PointFunc_from_array(u) == Point(const(u.arr[1]), const(u.arr[2]), const(u.arr[3]))

\* other.into() for U: Into<Point>: an array converts, a Point is itself.
Into_Point(u) == IF IsArray(u) THEN Point_from_array(u) ELSE u

\* impl Add<f64> for Point, impl Add for Point
Point_add_f64(a, val) == Point(FAdd(a.x, val), FAdd(a.y, val), FAdd(a.z, val))
Point_add(a, b) == Point(FAdd(a.x, b.x), FAdd(a.y, b.y), FAdd(a.z, b.z))

\* impl Add for PointFunc<T>
PointFunc_add(p, q) == Point(add(p.x, q.x), add(p.y, q.y), add(p.z, q.z))

\* impl Add<PointFunc<T>> for Point
Point_add_PointFunc(c, q) ==
    Point([fn |-> "Point_add_PointFunc", c |-> c.x, f |-> q.x],
          [fn |-> "Point_add_PointFunc", c |-> c.y, f |-> q.y],
          [fn |-> "Point_add_PointFunc", c |-> c.z, f |-> q.z])
Point_add_PointFunc_fn(c, f, a) == FAdd(c, Eval(f, a))

\* impl Add<U> for PointFunc<T>, U: Into<Point>
PointFunc_add_Into(p, u) ==
    LET other == Into_Point(u)
    IN  Point([fn |-> "PointFunc_add_Into", f |-> p.x, c |-> other.x],
              [fn |-> "PointFunc_add_Into", f |-> p.y, c |-> other.y],
              [fn |-> "PointFunc_add_Into", f |-> p.z, c |-> other.z])
PointFunc_add_Into_fn(f, c, a) == FAdd(Eval(f, a), c)

\* impl Sub<f64> for Point, impl Sub for Point
Point_sub_f64(a, val) == Point(FSub(a.x, val), FSub(a.y, val), FSub(a.z, val))
Point_sub(a, b) == Point(FSub(a.x, b.x), FSub(a.y, b.y), FSub(a.z, b.z))

\* impl Sub for PointFunc<T>
PointFunc_sub(p, q) == Point(sub(p.x, q.x), sub(p.y, q.y), sub(p.z, q.z))

\* impl Sub<PointFunc<T>> for Point
Point_sub_PointFunc(c, q) ==
    Point([fn |-> "Point_sub_PointFunc", c |-> c.x, f |-> q.x],
          [fn |-> "Point_sub_PointFunc", c |-> c.y, f |-> q.y],
          [fn |-> "Point_sub_PointFunc", c |-> c.z, f |-> q.z])
Point_sub_PointFunc_fn(c, f, a) == FSub(c, Eval(f, a))

\* impl Sub<U> for PointFunc<T>, U: Into<Point>
PointFunc_sub_Into(p, u) ==
    LET other == Into_Point(u)
    IN  Point([fn |-> "PointFunc_sub_Into", f |-> p.x, c |-> other.x],
              [fn |-> "PointFunc_sub_Into", f |-> p.y, c |-> other.y],
              [fn |-> "PointFunc_sub_Into", f |-> p.z, c |-> other.z])
PointFunc_sub_Into_fn_rev(f, c, a) == FSub(c, Eval(f, a))
PointFunc_sub_Into_fn(f, c, a) == FSub(Eval(f, a), c)

\* impl Mul<f64> for Point
Point_mul_f64(a, other) ==
    Point(FMul(a.x, other), FMul(a.y, other), FMul(a.z, other))

\* impl Mul<f64> for PointFunc<T>
PointFunc_mul_f64(p, other) ==
    Point([fn |-> "PointFunc_mul_f64", f |-> p.x, c |-> other],
          [fn |-> "PointFunc_mul_f64", f |-> p.y, c |-> other],
          [fn |-> "PointFunc_mul_f64", f |-> p.z, c |-> other])
PointFunc_mul_f64_fn(f, c, a) == FMul(Eval(f, a), c)

\* impl Mul<Func<T, f64>> for Point
Point_mul_Func(c, other) ==
    Point([fn |-> "Point_mul_Func", c |-> c.x, f |-> other],
          [fn |-> "Point_mul_Func", c |-> c.y, f |-> other],
          [fn |-> "Point_mul_Func", c |-> c.z, f |-> other])
Point_mul_Func_fn(c, f, t) == FMul(c, Eval(f, t))

\* impl Mul<Func<T, f64>> for PointFunc<T>
PointFunc_mul_Func(p, other) ==
    Point([fn |-> "PointFunc_mul_Func", f |-> p.x, o |-> other],
          [fn |-> "PointFunc_mul_Func", f |-> p.y, o |-> other],
          [fn |-> "PointFunc_mul_Func", f |-> p.z, o |-> other])
PointFunc_mul_Func_fn(f, o, a) == FMul(Eval(f, a), Eval(o, a))

\* impl Mul<PointFunc<T>> for Point
Point_mul_PointFunc(c, q) ==
    Point([fn |-> "Point_mul_PointFunc", c |-> c.x, f |-> q.x],
          [fn |-> "Point_mul_PointFunc", c |-> c.y, f |-> q.y],
          [fn |-> "Point_mul_PointFunc", c |-> c.z, f |-> q.z])
Point_mul_PointFunc_fn(c, f, t) == FMul(c, Eval(f, t))

\* impl Mul for PointFunc<T>
PointFunc_mul(p, q) ==
    Point([fn |-> "PointFunc_mul", f |-> p.x, o |-> q.x],
          [fn |-> "PointFunc_mul", f |-> p.y, o |-> q.y],
          [fn |-> "PointFunc_mul", f |-> p.z, o |-> q.z])
PointFunc_mul_fn(f, o, t) == FMul(Eval(f, t), Eval(o, t))

\* impl Div<f64> for PointFunc<T>
PointFunc_div_f64(p, other) ==
    Point([fn |-> "PointFunc_div_f64", f |-> p.x, c |-> other],
          [fn |-> "PointFunc_div_f64", f |-> p.y, c |-> other],
          [fn |-> "PointFunc_div_f64", f |-> p.z, c |-> other])
PointFunc_div_f64_fn(f, c, v) == FDiv(Eval(f, v), c)

\* impl Div<Func<T, f64>> for PointFunc<T>
PointFunc_div_Func(p, other) ==
    Point([fn |-> "PointFunc_div_Func", f |-> p.x, o |-> other],
          [fn |-> "PointFunc_div_Func", f |-> p.y, o |-> other],
          [fn |-> "PointFunc_div_Func", f |-> p.z, o |-> other])
PointFunc_div_Func_fn_guarded(f, o, v) ==
    IF IsZero(Eval(o, v)) THEN Zero ELSE FDiv(Eval(f, v), Eval(o, v))
PointFunc_div_Func_fn(f, o, v) == FDiv(Eval(f, v), Eval(o, v))

\* The reparametrisation of tests::cross: |t| t + 0.25, for any offset c.
plus(c) == [fn |-> "plus", c |-> c]
plus_fn(c, t) == FAdd(t, c)

(***************************************************************************)
(* The operators +, - and * as Rust resolves them: the impl chosen by the  *)
(* operand types.  line is generic over every combination that has one.    *)
(***************************************************************************)
OpAdd(a, b) ==
    CASE IsF64(a) /\ IsF64(b) -> FAdd(a, b)
      [] IsPoint(a) /\ IsF64(b) -> Point_add_f64(a, b)
      [] IsPoint(a) /\ IsPoint(b) -> Point_add(a, b)
      [] IsPointFunc(a) /\ IsPointFunc(b) -> PointFunc_add(a, b)
      [] IsPoint(a) /\ IsPointFunc(b) -> Point_add_PointFunc(a, b)
      [] IsPointFunc(a) /\ (IsPoint(b) \/ IsArray(b)) -> PointFunc_add_Into(a, b)

OpSub(a, b) ==
    CASE IsF64(a) /\ IsF64(b) -> FSub(a, b)
      [] IsPoint(a) /\ IsF64(b) -> Point_sub_f64(a, b)
      [] IsPoint(a) /\ IsPoint(b) -> Point_sub(a, b)
      [] IsPointFunc(a) /\ IsPointFunc(b) -> PointFunc_sub(a, b)
      [] IsPoint(a) /\ IsPointFunc(b) -> Point_sub_PointFunc(a, b)
      [] IsPointFunc(a) /\ (IsPoint(b) \/ IsArray(b)) -> PointFunc_sub_Into(a, b)

OpMul(a, b) ==
    CASE IsF64(a) /\ IsF64(b) -> FMul(a, b)
      [] IsPoint(a) /\ IsF64(b) -> Point_mul_f64(a, b)
      [] IsPointFunc(a) /\ IsF64(b) -> PointFunc_mul_f64(a, b)
      [] IsPoint(a) /\ IsFunc(b) -> Point_mul_Func(a, b)
      [] IsPointFunc(a) /\ IsFunc(b) -> PointFunc_mul_Func(a, b)
      [] IsPoint(a) /\ IsPointFunc(b) -> Point_mul_PointFunc(a, b)
      [] IsPointFunc(a) /\ IsPointFunc(b) -> PointFunc_mul(a, b)

line_from_b(a, b, t) == OpAdd(a, OpMul(OpSub(a, b), t))
\* line(&a, &b, &t) = a + (b - a) * t
line(a, b, t) == OpAdd(a, OpMul(OpSub(b, a), t))

qbez_from_a(a, b, c, t) == line(line(a, b, t), line(a, c, t), t)
\* qbez!(a, b, c, t)
qbez(a, b, c, t) == line(line(a, b, t), line(b, c, t), t)

cbez_casteljau(a, b, c, d, t) == line(qbez(a, b, c, t), qbez(b, c, d, t), t)
\* cbez!(a, b, c, d, t)
cbez(a, b, c, d, t) == line(line(a, b, t), line(c, d, t), t)

(***************************************************************************)
(* The hyperbola of src/examples/hyperbola.rs: a circle at the bottom, a   *)
(* raised and turned circle at the top, and lines between them.            *)
(***************************************************************************)
Hyperbola(height, phase) == [height |-> height, phase |-> phase]

\* impl Edge for Hyperbola
Hyperbola_top(hy) ==
    PointFunc_map(PointFunc_add_Into(circle, Array3(Zero, Zero, hy.height)),
                  plus(hy.phase))
Hyperbola_bottom(hy) == circle

\* impl Ring for Hyperbola
Hyperbola_ring(hy, t) == line(Hyperbola_bottom(hy), Hyperbola_top(hy), t)

\* impl Surface for Hyperbola: the component c evaluates the ring at p[1],
\* calls it at p[0] and takes its field c
surface_fn_swapped(hy, c, p) == PointFunc_call(Hyperbola_ring(hy, p[1]), p[2])[c]
surface_fn(hy, c, p) == PointFunc_call(Hyperbola_ring(hy, p[2]), p[1])[c]
Hyperbola_surface(hy) ==
    Point([fn |-> "surface", hy |-> hy, c |-> "x"],
          [fn |-> "surface", hy |-> hy, c |-> "y"],
          [fn |-> "surface", hy |-> hy, c |-> "z"])

\* HyperbolaFunc<T> = Hyperbola<Arg<T>>: height and phase are functions of
\* a parameter of type T.
HyperbolaFunc(height, phase) == [height |-> height, phase |-> phase]

\* impl Call<T> for Hyperbola: both fields called at val
HyperbolaFunc_call(f, val) ==
    Hyperbola(call_f64(f.height, val), call_f64(f.phase, val))

\* impl Edge for HyperbolaFunc<T>: the component c of top() takes (a, b),
\* calls the hyperbola at a and applies the field c of its top to b
HyperbolaFunc_top_fn(h, c, p) ==
    Eval(Hyperbola_top(HyperbolaFunc_call(h, p[1]))[c], p[2])
HyperbolaFunc_top(h) ==
    Point([fn |-> "HyperbolaFunc_top", h |-> h, c |-> "x"],
          [fn |-> "HyperbolaFunc_top", h |-> h, c |-> "y"],
          [fn |-> "HyperbolaFunc_top", h |-> h, c |-> "z"])
HyperbolaFunc_bottom_fn(h, c, p) ==
    Eval(Hyperbola_bottom(HyperbolaFunc_call(h, p[1]))[c], p[2])
HyperbolaFunc_bottom(h) ==
    Point([fn |-> "HyperbolaFunc_bottom", h |-> h, c |-> "x"],
          [fn |-> "HyperbolaFunc_bottom", h |-> h, c |-> "y"],
          [fn |-> "HyperbolaFunc_bottom", h |-> h, c |-> "z"])

\* impl Ring for HyperbolaFunc<T>: the line between the edges, each
\* component wrapped in a closure |a| r(a)
HyperbolaFunc_ring_fn(r, a) == Eval(r, a)
HyperbolaFunc_ring_of(r) ==
    Point([fn |-> "HyperbolaFunc_ring", r |-> r.x],
          [fn |-> "HyperbolaFunc_ring", r |-> r.y],
          [fn |-> "HyperbolaFunc_ring", r |-> r.z])
HyperbolaFunc_ring(h, t) ==
    HyperbolaFunc_ring_of(line(HyperbolaFunc_bottom(h), HyperbolaFunc_top(h), t))

\* impl Surface for HyperbolaFunc<T>: the component c takes (a, p), calls
\* the hyperbola at a, evaluates its ring at p[1] and calls it at p[0]
HyperbolaFunc_surface_fn_swapped(h, c, p) ==
    PointFunc_call(Hyperbola_ring(HyperbolaFunc_call(h, p[1]), p[2][1]), p[2][2])[c]
HyperbolaFunc_surface_fn(h, c, p) ==
    PointFunc_call(Hyperbola_ring(HyperbolaFunc_call(h, p[1]), p[2][2]), p[2][1])[c]
HyperbolaFunc_surface(h) ==
    Point([fn |-> "HyperbolaFunc_surface", h |-> h, c |-> "x"],
          [fn |-> "HyperbolaFunc_surface", h |-> h, c |-> "y"],
          [fn |-> "HyperbolaFunc_surface", h |-> h, c |-> "z"])

\* A closure applied: the body of the closure that f is.
Eval(f, x) ==
    CASE f.fn = "Arc" -> Arc_fn(f.at, x)
      [] f.fn = "add" -> add_fn(f.a, f.b, x)
      [] f.fn = "sub" -> sub_fn(f.a, f.b, x)
      [] f.fn = "lift_right" -> lift_right_fn(f.f, x)
      [] f.fn = "lift_left" -> lift_left_fn(f.f, x)
      [] f.fn = "id" -> id_fn(x)
      [] f.fn = "step" -> step_fn(x)
      [] f.fn = "floor" -> floor_fn(x)
      [] f.fn = "zero" -> zero_fn(x)
      [] f.fn = "one" -> one_fn(x)
      [] f.fn = "k" -> k_fn(f.v, x)
      [] f.fn = "zip" -> zip_fn(f.a, f.b, x)
      [] f.fn = "map" -> map_fn(f.a, f.f, x)
      [] f.fn = "neg" -> neg_fn(x)
      [] f.fn = "floor_plus_one" -> floor_plus_one_fn(x)
      [] f.fn = "if_bool" -> if_bool_fn(f.v, f.w, x)
      [] f.fn = "plus" -> plus_fn(f.c, x)
      [] f.fn = "circle_x" -> circle_x_fn(x)
      [] f.fn = "circle_y" -> circle_y_fn(x)
      [] f.fn = "PointFunc_norm" -> PointFunc_norm_fn(f.p, x)
      [] f.fn = "surface" -> surface_fn(f.hy, f.c, x)
      [] f.fn = "HyperbolaFunc_top" -> HyperbolaFunc_top_fn(f.h, f.c, x)
      [] f.fn = "HyperbolaFunc_bottom" -> HyperbolaFunc_bottom_fn(f.h, f.c, x)
      [] f.fn = "HyperbolaFunc_ring" -> HyperbolaFunc_ring_fn(f.r, x)
      [] f.fn = "HyperbolaFunc_surface" -> HyperbolaFunc_surface_fn(f.h, f.c, x)
      [] f.fn = "PointFunc_dot" -> PointFunc_dot_fn(f.p, f.q, x)
      [] f.fn = "cross_x" -> cross_x_fn(f.p, f.q, x)
      [] f.fn = "cross_y" -> cross_y_fn(f.p, f.q, x)
      [] f.fn = "cross_z" -> cross_z_fn(f.p, f.q, x)
      [] f.fn = "PointFunc_lift_right" -> PointFunc_lift_right_fn(f.f, x)
      [] f.fn = "PointFunc_lift_left" -> PointFunc_lift_left_fn(f.f, x)
      [] f.fn = "PointFunc_map" -> PointFunc_map_fn(f.a, f.f, x)
      [] f.fn = "axis" -> axis_fn(x)
      [] f.fn = "diff" -> diff_fn(f.f, f.eps, x)
      [] f.fn = "const" -> const_fn(f.v, x)
      [] f.fn = "Point_add_PointFunc" -> Point_add_PointFunc_fn(f.c, f.f, x)
      [] f.fn = "PointFunc_add_Into" -> PointFunc_add_Into_fn(f.f, f.c, x)
      [] f.fn = "Point_sub_PointFunc" -> Point_sub_PointFunc_fn(f.c, f.f, x)
      [] f.fn = "PointFunc_sub_Into" -> PointFunc_sub_Into_fn(f.f, f.c, x)
      [] f.fn = "PointFunc_mul_f64" -> PointFunc_mul_f64_fn(f.f, f.c, x)
      [] f.fn = "Point_mul_Func" -> Point_mul_Func_fn(f.c, f.f, x)
      [] f.fn = "PointFunc_mul_Func" -> PointFunc_mul_Func_fn(f.f, f.o, x)
      [] f.fn = "Point_mul_PointFunc" -> Point_mul_PointFunc_fn(f.c, f.f, x)
      [] f.fn = "PointFunc_mul" -> PointFunc_mul_fn(f.f, f.o, x)
      [] f.fn = "PointFunc_div_f64" -> PointFunc_div_f64_fn(f.f, f.c, x)
      [] f.fn = "PointFunc_div_Func" -> PointFunc_div_Func_fn(f.f, f.o, x)

(***************************************************************************)
(* The program: a caller builds a shape with one of the library's          *)
(* operations and calls it at parameter values.  op names the operation    *)
(* that built the current shape, ins holds its operands, shape is what it  *)
(* returned and ty the parameter type of that shape ("value" when the      *)
(* operation returned a concrete f64 or Point); arg and out are the        *)
(* parameter and the result of the first call.                             *)
(*                                                                         *)
(* A caller who keeps a shape is a third program: the closures of the      *)
(* shape are in cells of heap and shape holds the handles; the caller      *)
(* builds new values from clones of it, uses counts those operations and   *)
(* made is the last value built.                                           *)
(*                                                                         *)
(* The example's Renderer is a second program: points is its point list    *)
(* and sampled records, in order, the sample and sample2 calls made on it. *)
(***************************************************************************)
VARIABLES op, ins, shape, ty, called, arg, out, uses, made, points, sampled

vars == <<op, ins, shape, ty, called, arg, out, uses, made, heap, points, sampled>>
library == <<op, ins, shape, ty, called, arg, out, uses, made, heap>>
renderer == <<points, sampled>>

MaxHalf == 9
BigExp == 60

Big == Round(1, BigExp)
Half(n) == F(n, 1)

\* f64 parameters: the halves up to MaxHalf / 2, the negative zero, a value
\* so large that a unit added to it is lost, the infinities and NaN.
\* 0.25 is the angle tests::norm asks for; 13/16 is an angle where cos and
\* sin both have long significands.
Turns == {F(1, 2), F(13, 4)}
ParamsF64 ==
    {Half(n) : n \in -MaxHalf..MaxHalf} \cup Turns
    \cup {NegZero, Big, FNeg(Big), Inf(1), Inf(-1), NaN}

PairVals == {Half(n) : n \in -2..2} \cup {Big}
ParamsPair == {<<u, v>> : u \in PairVals, v \in PairVals}

\* (a, [s, t]): a parameter of a HyperbolaFunc<f64> and a surface coordinate
ParamsNested == {<<a, p>> : a \in PairVals, p \in ParamsPair}

Params(t) ==
    CASE t = "f64" -> ParamsF64
      [] t = "pair" -> ParamsPair
      [] t = "f64_array2" -> ParamsNested
      [] t = "bool" -> {TRUE, FALSE}
      [] t = "unit" -> {<<>>}

\* Func<f64, f64> operands.
Funcs == <<id, neg, floor, step, one, k(Half(3)), floor_plus_one>>

\* PointFunc<f64> operands.
PointFuncs ==
    <<PointFunc_x, PointFunc_y, PointFunc_z,
      PointFunc_from_array(Array3(Zero, f64_1, f64_1)),
      Point(one, id, one),
      zig_zag,
      PointFunc_div_Func(PointFunc_x, zero),
      Point(neg, floor, step),
      circle>>

\* Concrete operands: Points and [f64; 3] arrays.
Points ==
    <<Point(Zero, Zero, Zero),
      Point(f64_1, Zero, Half(-1)),
      Point(Big, f64_1, f64_1),
      Point(f64_1, f64_1, Zero),
      Point(Inf(1), f64_2, NaN)>>
Arrays == <<Array3(Half(1), Zero, Zero), Array3(f64_1, Big, Half(-3))>>
Concretes == Points \o Arrays

\* Point functions as a caller writes them, with their parameter types.
Literals ==
    [i \in 1..Len(PointFuncs) |-> [p |-> PointFuncs[i], ty |-> "f64"]]
    \o <<[p |-> Point(if_bool(f64_1, f64_2), if_bool(F(3, 0), F(4, 0)), zero),
          ty |-> "bool"],
         [p |-> Point(k(f64_1), k(f64_2), zero), ty |-> "unit"],
         [p |-> zag_zig, ty |-> "f64"],
         [p |-> PointFunc_lift_right(zig_zag), ty |-> "pair"],
         [p |-> PointFunc_map(PointFunc_x, lift_left(neg)), ty |-> "pair"]>>

\* Operands of line: shapes over (f64, f64), concrete Points, and the
\* interpolation parameter as a function of the pair or as a number.
LineShapes ==
    <<PointFunc_lift_right(PointFunc_x),
      PointFunc_lift_right(Point(one, id, neg)),
      Points[1], Points[3], Points[4], Points[5]>>
LineParams == <<lift_left(id), Zero, f64_1, Half(1)>>

Eps == {Zero, Half(1), f64_1, F(-2, 0), Inf(1), NaN}

\* Reparametrisations f: U -> f64 passed to map, with the type U.
MapsF64 == <<id, neg, plus(F(1, 2)), floor>>
Maps ==
    [i \in 1..Len(MapsF64) |-> [f |-> MapsF64[i], ty |-> "f64"]]
    \o <<[f |-> lift_left(neg), ty |-> "pair"],
         [f |-> lift_right(plus(F(1, 2))), ty |-> "pair"]>>

\* [f64; 3] values to convert, with distinct and non-finite components.
Triples ==
    <<Array3(Zero, f64_1, f64_2),
      Array3(Half(1), Half(1), Zero),
      Array3(f64_1, Big, Half(-3)),
      Array3(Inf(1), NaN, Inf(-1))>>
ParamTypes == <<"f64", "pair", "bool", "unit">>

\* Control shapes of the bezier macros: circles carried along the x axis,
\* lifted to (angle, t) pairs, and concrete Points.
Offsets == <<Array3(Zero, Zero, Zero), Array3(Half(1), Zero, Zero),
             Array3(f64_1, Zero, Zero)>>
QbezShapes ==
    [i \in 1..3 |-> PointFunc_lift_right(PointFunc_add_Into(circle, Offsets[i]))]
    \o <<Points[4], Points[3]>>
CbezShapes ==
    [i \in 1..3 |-> PointFunc_lift_right(PointFunc_sub_Into(circle, Offsets[i]))]
    \o <<Points[3]>>

\* The shapes a caller keeps while building new values from them.
KeptShapes == {circle, zig_zag, PointFunc_x, step, floor}

\* Divisors of a point function: numbers and scalar functions, some of
\* them zero somewhere.
DivisorsF64 == <<Zero, NegZero, f64_2, Half(-1)>>
Divisors == <<zero, id, neg, floor, step, one>>

\* Concrete hyperbolas (height, phase) and the ring parameters.
Hyperbolas ==
    <<Hyperbola(f64_2, F(1, 2)), Hyperbola(Half(7), Zero),
      Hyperbola(f64_2, Half(-1))>>
RingParams == <<Zero, Half(1), f64_1>>

\* What main renders: the edges of a hyperbola and a zig-zag carried along
\* the x axis, and surfaces; the sample counts of sample run up to
\* MaxSamples, those of sample2 are the pairs [n0, n1] of Sample2Counts.
MaxSamples == 4
MaxCalls == 2
RenderShapes ==
    <<PointFunc_add_Into(Hyperbola_bottom(Hyperbolas[1]), Offsets[2]),
      PointFunc_add_Into(Hyperbola_top(Hyperbolas[1]), Offsets[2]),
      PointFunc_add_Into(zig_zag, Offsets[3])>>
RenderSurfaces ==
    <<PointFunc_add_Into(Hyperbola_surface(Hyperbolas[1]), Offsets[2]),
      Hyperbola_surface(Hyperbolas[2])>>
Sample2Counts == <<<<0, 3>>, <<1, 1>>, <<2, 3>>, <<3, 2>>, <<4, 0>>>>

\* Hyperbolas over a parameter a: f64, as (height, phase) functions of a.
HyperbolaFuncs ==
    <<HyperbolaFunc(id, k(F(1, 2))), HyperbolaFunc(plus(f64_2), id),
      HyperbolaFunc(k(Half(7)), neg)>>

\* Renderer::new: points: vec![]
Renderer_new == <<>>

Init ==
    /\ op = "none"
    /\ ins = <<>>
    /\ shape = <<>>
    /\ ty = "none"
    /\ called = FALSE
    /\ arg = <<>>
    /\ out = <<>>
    /\ uses = 0
    /\ made = <<>>
    /\ heap = <<>>
    /\ points = Renderer_new
    /\ sampled = <<>>

\* A shape has been built and has not yet been called.
Built(o, i, s, t) ==
    /\ op' = o
    /\ ins' = i
    /\ shape' = s
    /\ ty' = t
    /\ called' = FALSE
    /\ arg' = <<>>
    /\ out' = <<>>
    /\ UNCHANGED <<uses, made, heap, renderer>>

\* An operation on concrete operands returned a concrete value.
Returned(o, i, v) ==
    /\ op' = o
    /\ ins' = i
    /\ shape' = v
    /\ ty' = "value"
    /\ called' = TRUE
    /\ arg' = <<>>
    /\ out' = v
    /\ UNCHANGED <<uses, made, heap, renderer>>

Construct ==
    \E i \in 1..Len(Literals) :
        /\ op = "none"
        /\ Built("literal", <<>>, Literals[i].p, Literals[i].ty)

Zip ==
    \E i, j \in 1..Len(Funcs) :
        /\ op = "none"
        /\ Built("zip", [a |-> Funcs[i], b |-> Funcs[j]], zip(Funcs[i], Funcs[j]), "f64")

Step ==
    /\ op = "none"
    /\ Built("step", <<>>, step, "f64")

MulStep ==
    \E i \in 1..Len(PointFuncs) :
        /\ op = "none"
        /\ Built("mul_step", [p |-> PointFuncs[i]],
              OpMul(PointFuncs[i], step), "f64")

LiftRight ==
    \E i \in 1..Len(Funcs) :
        /\ op = "none"
        /\ Built("lift_right", [f |-> Funcs[i]], lift_right(Funcs[i]), "pair")

LiftLeft ==
    \E i \in 1..Len(Funcs) :
        /\ op = "none"
        /\ Built("lift_left", [f |-> Funcs[i]], lift_left(Funcs[i]), "pair")

PfLiftRight ==
    \E i \in 1..Len(PointFuncs) :
        /\ op = "none"
        /\ Built("pf_lift_right", [p |-> PointFuncs[i]],
              PointFunc_lift_right(PointFuncs[i]), "pair")

PfLiftLeft ==
    \E i \in 1..Len(PointFuncs) :
        /\ op = "none"
        /\ Built("pf_lift_left", [p |-> PointFuncs[i]],
              PointFunc_lift_left(PointFuncs[i]), "pair")

\* p.lift_right() + q.lift_left()
LiftSum ==
    \E i, j \in 1..Len(PointFuncs) :
        /\ op = "none"
        /\ Built("lift_sum", [p |-> PointFuncs[i], q |-> PointFuncs[j]],
              OpAdd(PointFunc_lift_right(PointFuncs[i]),
                    PointFunc_lift_left(PointFuncs[j])), "pair")

\* p + q, p - q, p * q on two point functions
PfAdd ==
    \E i, j \in 1..Len(PointFuncs) :
        /\ op = "none"
        /\ Built("pf_add", [p |-> PointFuncs[i], q |-> PointFuncs[j]],
              OpAdd(PointFuncs[i], PointFuncs[j]), "f64")

PfSub ==
    \E i, j \in 1..Len(PointFuncs) :
        /\ op = "none"
        /\ Built("pf_sub", [p |-> PointFuncs[i], q |-> PointFuncs[j]],
              OpSub(PointFuncs[i], PointFuncs[j]), "f64")

PfMul ==
    \E i, j \in 1..Len(PointFuncs) :
        /\ op = "none"
        /\ Built("pf_mul", [p |-> PointFuncs[i], q |-> PointFuncs[j]],
              OpMul(PointFuncs[i], PointFuncs[j]), "f64")

\* C + f, f + C, C - f, f - C, C * f with a concrete C
PointAddPf ==
    \E i \in 1..Len(Points), j \in 1..Len(PointFuncs) :
        /\ op = "none"
        /\ Built("c_add_f", [c |-> Points[i], f |-> PointFuncs[j]],
              OpAdd(Points[i], PointFuncs[j]), "f64")

PfAddInto ==
    \E i \in 1..Len(Concretes), j \in 1..Len(PointFuncs) :
        /\ op = "none"
        /\ Built("f_add_c", [c |-> Concretes[i], f |-> PointFuncs[j]],
              OpAdd(PointFuncs[j], Concretes[i]), "f64")

PointSubPf ==
    \E i \in 1..Len(Points), j \in 1..Len(PointFuncs) :
        /\ op = "none"
        /\ Built("c_sub_f", [c |-> Points[i], f |-> PointFuncs[j]],
              OpSub(Points[i], PointFuncs[j]), "f64")

PfSubInto ==
    \E i \in 1..Len(Concretes), j \in 1..Len(PointFuncs) :
        /\ op = "none"
        /\ Built("f_sub_c", [c |-> Concretes[i], f |-> PointFuncs[j]],
              OpSub(PointFuncs[j], Concretes[i]), "f64")

PointMulPf ==
    \E i \in 1..Len(Points), j \in 1..Len(PointFuncs) :
        /\ op = "none"
        /\ Built("c_mul_f", [c |-> Points[i], f |-> PointFuncs[j]],
              OpMul(Points[i], PointFuncs[j]), "f64")

Dot ==
    \E i, j \in 1..Len(PointFuncs) :
        /\ op = "none"
        /\ Built("dot", [p |-> PointFuncs[i], q |-> PointFuncs[j]],
              PointFunc_dot(PointFuncs[i], PointFuncs[j]), "f64")

DotPoint ==
    \E i, j \in 1..Len(Points) :
        /\ op = "none"
        /\ Returned("point_dot", [a |-> Points[i], b |-> Points[j]],
                 Point_dot(Points[i], Points[j]))

Cross ==
    \E i, j \in 1..Len(PointFuncs) :
        /\ op = "none"
        /\ Built("cross", [p |-> PointFuncs[i], q |-> PointFuncs[j]],
              PointFunc_cross(PointFuncs[i], PointFuncs[j]), "f64")

CrossPoint ==
    \E i, j \in 1..Len(Points) :
        /\ op = "none"
        /\ Returned("point_cross", [a |-> Points[i], b |-> Points[j]],
                 Point_cross(Points[i], Points[j]))

Diff ==
    \E i \in 1..Len(PointFuncs), eps \in Eps :
        /\ op = "none"
        /\ Built("diff", [p |-> PointFuncs[i], eps |-> eps],
              PointFunc_diff(PointFuncs[i], eps), "f64")

Line ==
    \E i, j \in 1..Len(LineShapes), n \in 1..Len(LineParams) :
        LET a == LineShapes[i]
            b == LineShapes[j]
            t == LineParams[n]
            r == line(a, b, t)
        IN  /\ op = "none"
            /\ IF IsPoint(r)
               THEN Returned("line", [a |-> a, b |-> b, t |-> t], r)
               ELSE Built("line", [a |-> a, b |-> b, t |-> t], r, "pair")

\* math::map(a, f)
MapFunc ==
    \E i \in 1..Len(Funcs), j \in 1..Len(Maps) :
        /\ op = "none"
        /\ Built("map_func", [a |-> Funcs[i], f |-> Maps[j].f],
                 map(Funcs[i], Maps[j].f), Maps[j].ty)

\* p.map(f)
Map ==
    \E i \in 1..Len(PointFuncs), j \in 1..Len(Maps) :
        /\ op = "none"
        /\ Built("map", [p |-> PointFuncs[i], f |-> Maps[j].f],
                 PointFunc_map(PointFuncs[i], Maps[j].f), Maps[j].ty)

\* p.map(f).map(g)
MapMap ==
    \E i \in 1..Len(PointFuncs), j \in 1..Len(MapsF64), n \in 1..Len(Maps) :
        /\ op = "none"
        /\ Built("map_map",
                 [p |-> PointFuncs[i], f |-> MapsF64[j], g |-> Maps[n].f],
                 PointFunc_map(PointFunc_map(PointFuncs[i], MapsF64[j]), Maps[n].f),
                 Maps[n].ty)

\* let p: Point = u.into()
IntoPoint ==
    \E i \in 1..Len(Triples) :
        /\ op = "none"
        /\ Returned("into_point", [u |-> Triples[i]], Point_from_array(Triples[i]))

\* let b: [f64; 3] = a.into()
FromPoint ==
    \E i \in 1..Len(Points) :
        /\ op = "none"
        /\ Returned("from_point", [a |-> Points[i]], array_from_Point(Points[i]))

\* [f64; 3] -> Point -> [f64; 3]
IntoArrayAndBack ==
    \E i \in 1..Len(Triples) :
        /\ op = "none"
        /\ Returned("into_and_back", [u |-> Triples[i]],
                    array_from_Point(Point_from_array(Triples[i])))

\* let f: PointFunc<T> = u.into()
IntoPointFunc ==
    \E i \in 1..Len(Triples), n \in 1..Len(ParamTypes) :
        /\ op = "none"
        /\ Built("into_point_func", [u |-> Triples[i]],
                 PointFunc_from_array(Triples[i]), ParamTypes[n])

\* p.norm() on a PointFunc
Norm ==
    \E i \in 1..Len(PointFuncs) :
        /\ op = "none"
        /\ Built("norm", [p |-> PointFuncs[i]], PointFunc_norm(PointFuncs[i]), "f64")

\* a.norm() on a Point
NormPoint ==
    \E i \in 1..Len(Points) :
        /\ op = "none"
        /\ Returned("norm_point", [a |-> Points[i]], Point_norm(Points[i]))

\* qbez!(&a, &b, &c, &t) with t = lift_left(id())
Qbez ==
    \E i, j, n \in 1..Len(QbezShapes) :
        LET a == QbezShapes[i]
            b == QbezShapes[j]
            c == QbezShapes[n]
            t == lift_left(id)
        IN  /\ op = "none"
            /\ Built("qbez", [a |-> a, b |-> b, c |-> c, t |-> t],
                  qbez(a, b, c, t), "pair")

\* cbez!(&a, &b, &c, &d, &t) with t = lift_left(id())
Cbez ==
    \E i, j, n, o \in 1..Len(CbezShapes) :
        LET a == CbezShapes[i]
            b == CbezShapes[j]
            c == CbezShapes[n]
            d == CbezShapes[o]
            t == lift_left(id)
        IN  /\ op = "none"
            /\ Built("cbez", [a |-> a, b |-> b, c |-> c, d |-> d, t |-> t],
                  cbez(a, b, c, d, t), "pair")

\* floor()
Floor ==
    /\ op = "none"
    /\ Built("floor", <<>>, floor, "f64")

\* p * floor()
MulFloor ==
    \E i \in 1..Len(PointFuncs) :
        /\ op = "none"
        /\ Built("mul_floor", [p |-> PointFuncs[i]],
              OpMul(PointFuncs[i], floor), "f64")

\* p / c for a number c
PfDiv ==
    \E i \in 1..Len(PointFuncs), j \in 1..Len(DivisorsF64) :
        /\ op = "none"
        /\ Built("div", [p |-> PointFuncs[i], c |-> DivisorsF64[j]],
              PointFunc_div_f64(PointFuncs[i], DivisorsF64[j]), "f64")

\* p / f for a scalar function f
PfDivFunc ==
    \E i \in 1..Len(PointFuncs), j \in 1..Len(Divisors) :
        /\ op = "none"
        /\ Built("div_func", [p |-> PointFuncs[i], o |-> Divisors[j]],
              PointFunc_div_Func(PointFuncs[i], Divisors[j]), "f64")

\* hy.ring(t)
Ring ==
    \E i \in 1..Len(Hyperbolas), j \in 1..Len(RingParams) :
        /\ op = "none"
        /\ Built("ring", [hy |-> Hyperbolas[i], t |-> RingParams[j]],
              Hyperbola_ring(Hyperbolas[i], RingParams[j]), "f64")

\* hy.surface()
Surface ==
    \E i \in 1..Len(Hyperbolas) :
        /\ op = "none"
        /\ Built("surface", [hy |-> Hyperbolas[i]],
              Hyperbola_surface(Hyperbolas[i]), "pair")

\* h.top() and h.bottom()
FuncTop ==
    \E i \in 1..Len(HyperbolaFuncs) :
        /\ op = "none"
        /\ Built("func_top", [h |-> HyperbolaFuncs[i]],
              HyperbolaFunc_top(HyperbolaFuncs[i]), "pair")

FuncBottom ==
    \E i \in 1..Len(HyperbolaFuncs) :
        /\ op = "none"
        /\ Built("func_bottom", [h |-> HyperbolaFuncs[i]],
              HyperbolaFunc_bottom(HyperbolaFuncs[i]), "pair")

\* h.ring(t)
FuncRing ==
    \E i \in 1..Len(HyperbolaFuncs), j \in 1..Len(RingParams) :
        /\ op = "none"
        /\ Built("func_ring", [h |-> HyperbolaFuncs[i], t |-> RingParams[j]],
              HyperbolaFunc_ring(HyperbolaFuncs[i], RingParams[j]), "pair")

\* h.surface()
FuncSurface ==
    \E i \in 1..Len(HyperbolaFuncs) :
        /\ op = "none"
        /\ Built("func_surface", [h |-> HyperbolaFuncs[i]],
              HyperbolaFunc_surface(HyperbolaFuncs[i]), "f64_array2")

\* The first f(v) on a Func or p.call(v) on a PointFunc
Call ==
    /\ ty \in {"f64", "pair", "f64_array2", "bool", "unit"}
    /\ ~called
    /\ \E v \in Params(ty) :
        /\ arg' = v
        /\ out' = IF IsFunc(shape) THEN Eval(shape, v) ELSE PointFunc_call(shape, v)
    /\ called' = TRUE
    /\ UNCHANGED <<op, ins, shape, ty, uses, made, heap, renderer>>

\* What a caller builds from clones of a kept shape f over f64: each entry
\* is the new value g and whether g takes a pair.  f.clone() is the same
\* cells again (Arc::clone); every constructor takes its operands by value
\* and moves them into the closures it builds.
Clone(f) == f
UsesOf(f) ==
    IF IsFunc(f)
    THEN <<[g |-> Clone(f), pair |-> FALSE],
           [g |-> add(Clone(f), id), pair |-> FALSE],
           [g |-> sub(Clone(f), id), pair |-> FALSE],
           [g |-> lift_left(Clone(f)), pair |-> TRUE],
           [g |-> lift_right(Clone(f)), pair |-> TRUE],
           [g |-> map(Clone(f), neg), pair |-> FALSE]>>
    ELSE <<[g |-> Clone(f), pair |-> FALSE],
           [g |-> PointFunc_add(Clone(f), PointFunc_x), pair |-> FALSE],
           [g |-> PointFunc_sub(Clone(f), PointFunc_x), pair |-> FALSE],
           [g |-> PointFunc_mul_f64(Clone(f), f64_2), pair |-> FALSE],
           [g |-> PointFunc_div_f64(Clone(f), f64_2), pair |-> FALSE],
           [g |-> PointFunc_div_Func(Clone(f), PointFunc_norm(Clone(f))), pair |-> FALSE],
           [g |-> PointFunc_lift_left(Clone(f)), pair |-> TRUE],
           [g |-> PointFunc_lift_right(Clone(f)), pair |-> TRUE],
           [g |-> PointFunc_map(Clone(f), neg), pair |-> FALSE],
           [g |-> PointFunc_diff(Clone(f), f64_1), pair |-> FALSE],
           [g |-> PointFunc_dot(Clone(f), Clone(f)), pair |-> FALSE],
           [g |-> PointFunc_cross(Clone(f), PointFunc_x), pair |-> FALSE],
           [g |-> PointFunc_norm(Clone(f)), pair |-> FALSE],
           [g |-> line(f, PointFunc_x, Half(1)), pair |-> FALSE]>>

\* g called at v, or g itself when it is a concrete value
Apply(g, v) ==
    IF IsFunc(g) THEN Eval(g, v)
    ELSE IF IsPointFunc(g) THEN PointFunc_call(g, v)
    ELSE g

\* The use u of a kept shape called at the parameter v of the first call
ApplyUse(u, v) == Apply(u.g, IF u.pair THEN <<v, v>> ELSE v)

\* The closures of a value g that a constructor returned, and whether they
\* are new closures (Arc::new) or the handles of a clone.
Closures(g) == IF IsFunc(g) THEN <<g>> ELSE <<g.x, g.y, g.z>>
IsNew(g) == Closures(g)[1].fn # "Arc"
\* The handles of the cells from cell n + 1 on, for a value shaped as g
HandlesFrom(n, g) ==
    IF IsFunc(g) THEN Arc(n + 1) ELSE Point(Arc(n + 1), Arc(n + 2), Arc(n + 3))
\* Arc::new for each closure of g: the heap h with the new cells, and what
\* the caller then holds.
Arc_new(h, g) == IF IsNew(g) THEN h \o Closures(g) ELSE h
Handles(h, g) == IF IsNew(g) THEN HandlesFrom(Len(h), g) ELSE g

\* The cells of the kept shape f written over with the closures of g
Overwritten(h, f, g) ==
    [i \in 1..Len(h) |->
        IF IsFunc(f) THEN (IF i = f.at THEN g ELSE h[i])
        ELSE IF i = f.x.at THEN g.x
        ELSE IF i = f.y.at THEN g.y
        ELSE IF i = f.z.at THEN g.z
        ELSE h[i]]
\* The heap h with copies of the cells of f in new cells
Moved(h, f) ==
    h \o (IF IsFunc(f) THEN <<h[f.at]>> ELSE <<h[f.x.at], h[f.y.at], h[f.z.at]>>)
SameKind(f, g) == IsNew(g) /\ IsFunc(f) = IsFunc(g)
\* An operation that builds its result in the cells of its operand, as
\* `*f = op(old f)` through the shared cell would.
LibraryOpInPlace(h, f, i) ==
    IF SameKind(f, UsesOf(f)[i].g) /\ ~UsesOf(f)[i].pair
    THEN Overwritten(Moved(h, f), f, UsesOf(HandlesFrom(Len(h), f))[i].g)
    ELSE Arc_new(h, UsesOf(f)[i].g)
\* The heap after the i-th operation of UsesOf is applied to clones of the
\* kept shape f: the closures it builds go to fresh cells.
LibraryOp(h, f, i) == Arc_new(h, UsesOf(f)[i].g)

\* let f = circle() (or zig_zag(), x(), step(), floor()): the caller holds
\* the handles of the closures the constructor built.
Keep ==
    /\ op = "none"
    /\ \E f \in KeptShapes :
        /\ heap' = Arc_new(heap, f)
        /\ shape' = Handles(heap, f)
        /\ ins' = [f |-> f]
    /\ op' = "keep"
    /\ ty' = "f64"
    /\ UNCHANGED <<called, arg, out, uses, made, renderer>>
\* The kept shape is called for the first time.
CallKept ==
    /\ op = "keep"
    /\ ~called
    /\ \E v \in ParamsF64 :
        /\ arg' = v
        /\ out' = Apply(shape, v)
    /\ called' = TRUE
    /\ UNCHANGED <<op, ins, shape, ty, uses, made, heap, renderer>>
\* After the first call the caller builds the next new value of UsesOf
\* from clones of the shape it keeps.
Use ==
    /\ op = "keep"
    /\ called
    /\ uses < Len(UsesOf(shape))
    /\ heap' = LibraryOp(heap, shape, uses + 1)
    /\ made' = [g |-> Handles(heap, UsesOf(shape)[uses + 1].g),
                pair |-> UsesOf(shape)[uses + 1].pair]
    /\ uses' = uses + 1
    /\ UNCHANGED <<op, ins, shape, ty, called, arg, out, renderer>>
\* The kept shape called again at the parameter of the first call: the
\* closures in its cells, as the heap now holds them, are run.
CallAgain ==
    /\ op = "keep"
    /\ called
    /\ uses > 0
    /\ out' = Apply(shape, arg)
    /\ UNCHANGED <<op, ins, shape, ty, called, arg, uses, made, heap, renderer>>

(***************************************************************************)
(* The Renderer of src/examples/hyperbola.rs: a list of concrete points    *)
(* that sample and sample2 fill from a point function.                     *)
(***************************************************************************)
\* i as f64 for a usize i
usize_as_f64(i) == F(i, 0)

\* let x = i as f64 / n as f64
sample_x_next(i, n) == FDiv(usize_as_f64(i + 1), usize_as_f64(n))
sample_x(i, n) == FDiv(usize_as_f64(i), usize_as_f64(n))

\* for i in 0..n { self.points.push(p.call(x)) }
RECURSIVE sample_loop(_, _, _, _)
sample_loop(pts, p, n, i) ==
    IF i >= n THEN pts
    ELSE sample_loop(Append(pts, PointFunc_call(p, sample_x(i, n))), p, n, i + 1)
Renderer_sample(pts, p, n) == sample_loop(pts, p, n, 0)

\* for i in 0..n[0] { for j in 0..n[1] { self.points.push(p.call([i / n[0], j / n[1]])) } }
RECURSIVE sample2_inner(_, _, _, _, _)
sample2_inner(pts, p, n, i, j) ==
    IF j >= n[2] THEN pts
    ELSE sample2_inner(
             Append(pts, PointFunc_call(p, <<sample_x(i, n[1]), sample_x(j, n[2])>>)),
             p, n, i, j + 1)
RECURSIVE sample2_outer(_, _, _, _)
sample2_outer(pts, p, n, i) ==
    IF i >= n[1] THEN pts
    ELSE sample2_outer(sample2_inner(pts, p, n, i, 0), p, n, i + 1)
Renderer_sample2(pts, p, n) == sample2_outer(pts, p, n, 0)

\* renderer.sample(&p, n)
Sample ==
    \E i \in 1..Len(RenderShapes), n \in 0..MaxSamples :
        /\ Len(sampled) < MaxCalls
        /\ points' = Renderer_sample(points, RenderShapes[i], n)
        /\ sampled' = Append(sampled, [f |-> "sample", p |-> RenderShapes[i], n |-> <<n>>])
        /\ UNCHANGED library

\* renderer.sample2(&p, [n0, n1])
Sample2 ==
    \E i \in 1..Len(RenderSurfaces), j \in 1..Len(Sample2Counts) :
        /\ Len(sampled) < MaxCalls
        /\ points' = Renderer_sample2(points, RenderSurfaces[i], Sample2Counts[j])
        /\ sampled' = Append(sampled, [f |-> "sample2", p |-> RenderSurfaces[i],
                                       n |-> Sample2Counts[j]])
        /\ UNCHANGED library

RendererNext ==
    \/ Sample
    \/ Sample2

\* The renderer on its own: from new(), any sequence of sample and sample2
RendererSpec == Init /\ [][RendererNext]_vars

Next ==
    \/ Construct
    \/ Zip
    \/ Step
    \/ MulStep
    \/ LiftRight
    \/ LiftLeft
    \/ PfLiftRight
    \/ PfLiftLeft
    \/ LiftSum
    \/ PfAdd
    \/ PfSub
    \/ PfMul
    \/ PointAddPf
    \/ PfAddInto
    \/ PointSubPf
    \/ PfSubInto
    \/ PointMulPf
    \/ Dot
    \/ DotPoint
    \/ Cross
    \/ CrossPoint
    \/ Diff
    \/ Line
    \/ MapFunc
    \/ Map
    \/ MapMap
    \/ IntoPoint
    \/ FromPoint
    \/ IntoArrayAndBack
    \/ IntoPointFunc
    \/ Norm
    \/ NormPoint
    \/ Qbez
    \/ Cbez
    \/ Floor
    \/ MulFloor
    \/ PfDiv
    \/ PfDivFunc
    \/ Ring
    \/ Surface
    \/ FuncTop
    \/ FuncBottom
    \/ FuncRing
    \/ FuncSurface
    \/ Call

Spec == Init /\ [][Next]_vars

KeptNext ==
    \/ Keep
    \/ CallKept
    \/ Use
    \/ CallAgain

\* The caller who keeps a shape: it is built and called, then new values
\* are built from clones of it and it is called again, in any interleaving.
KeptSpec == Init /\ [][KeptNext]_vars

\* Every value the program computes is one the model holds.
ValueHeld(v) == IF IsF64(v) THEN ~IsWide(v)
                ELSE IF IsArray(v) THEN \A i \in 1..3 : ~IsWide(v.arr[i])
                ELSE ~IsWide(v.x) /\ ~IsWide(v.y) /\ ~IsWide(v.z)
AllHeld == called => ValueHeld(out)

(***************************************************************************)
(* Vocabulary of the properties.                                           *)
(***************************************************************************)
Comps == {"x", "y", "z"}
ZeroPoint == Point(Zero, Zero, Zero)
IsNegative(x) == x.k \in {"fin", "inf"} /\ x.m < 0

\* Equality of f64 values as numbers: 0.0 and -0.0 are one number.  (It is
\* the == of f64, except that a NaN is the same as a NaN.)
SameF64(x, y) == x = y \/ (IsZero(x) /\ IsZero(y))
SamePoint(p, q) == \A c \in Comps : SameF64(p[c], q[c])
SameValue(v, w) == IF IsF64(v) THEN SameF64(v, w) ELSE SamePoint(v, w)

\* The rule a reader expects of zip: n = floor(t) selects a (n even) or
\* b (n odd), evaluated at the fractional part of t plus n/2 or (n-1)/2.
ZipRule(a, b, t) ==
    LET n == FFloor(t)
        frac == FSub(t, n)
    IN  IF IsZero(FRem(n, f64_2))
        THEN Eval(a, FAdd(frac, FDiv(n, f64_2)))
        ELSE Eval(b, FAdd(frac, FDiv(FSub(n, f64_1), f64_2)))

\* C1: for every finite t, negative values included, zip(a, b)(t) follows
\* the rule: with n = floor(t), a((t mod 1) + n/2) when n is even and
\* b((t mod 1) + (n-1)/2) when n is odd.
C1_ZipRule ==
    (op = "zip" /\ called /\ IsFinite(arg)) =>
        SameF64(out, ZipRule(ins.a, ins.b, arg))

\* The rule of C1 on the inputs t >= 0, where the code does follow it.
ZipRuleNonNegative ==
    (op = "zip" /\ called /\ IsFinite(arg) /\ ~IsNegative(arg)) =>
        SameF64(out, ZipRule(ins.a, ins.b, arg))

\* What the code does on t < 0: the remainder keeps the sign of t, so the
\* test `t % 2.0 < 1.0` always selects a.
ZipNegativeSelectsA ==
    (op = "zip" /\ called /\ IsFinite(arg) /\ IsNegative(arg)) =>
        out = Eval(ins.a, FAdd(FRem(arg, f64_1), FFloor(FDiv(arg, f64_2))))

\* C2: step() returns 0 for every negative input and 1 for every other
\* input, 0 included; p * step() is p.call(t) at every t that is not
\* negative, and at t < 0 it is 0 in every component where p.call(t) is
\* finite and NaN in every component where p.call(t) is infinite or NaN;
\* at every t each component is that of p.call(t) times step()(t) in f64.
C2_Step ==
    /\ (op = "step" /\ called) =>
           out = IF IsNegative(arg) THEN Zero ELSE f64_1
    /\ (op = "mul_step" /\ called) =>
           LET pv == PointFunc_call(ins.p, arg)
           IN  /\ \A c \in Comps : out[c] = FMul(pv[c], step_fn(arg))
               /\ IF IsNegative(arg)
                  THEN \A c \in Comps :
                         /\ IsFinite(pv[c]) => IsZero(out[c])
                         /\ ~IsFinite(pv[c]) => IsNaN(out[c])
                  ELSE out = pv

\* C2 as stated: p * step() is the zero point at every t < 0, whatever p.
C2_StepZeroPoint ==
    (op = "mul_step" /\ called /\ IsNegative(arg)) => SamePoint(out, ZeroPoint)

C2_Witness ==
    /\ op = "mul_step"
    /\ called
    /\ IsNegative(arg)
    /\ \E c \in Comps : IsNaN(out[c])
    /\ \E c \in Comps :
         IsZero(out[c]) /\ ~IsZero(PointFunc_call(ins.p, arg)[c])

\* A shape or a number at a parameter value: a function is called, a
\* concrete value is itself.
ValueAt(s, v) ==
    IF IsFunc(s) THEN Eval(s, v)
    ELSE IF IsPointFunc(s) THEN PointFunc_call(s, v)
    ELSE s

\* x + y is formed without rounding: both are finite, the sum is finite
\* and no bit of the smaller operand is lost.
\* The value x + y of two finite non-zero values when an f64 significand
\* can hold it, Wide when it cannot.
ExactSum(x, y) ==
    LET e0 == IF x.e <= y.e THEN x.e ELSE y.e
        A == NShl(Magnitude(x), x.e - e0)
        B == NShl(Magnitude(y), y.e - e0)
        c == NCmp(A, B)
        S == IF Sgn(x.m) = Sgn(y.m) THEN NAdd(A, B)
             ELSE IF c > 0 THEN NSub(A, B) ELSE NSub(B, A)
        s == IF Sgn(x.m) = Sgn(y.m) \/ c > 0 THEN Sgn(x.m) ELSE Sgn(y.m)
        tz == NTrailingZeros(S)
    IN  IF Top(x) - Top(y) > 2 * MANTISSA_DIGITS THEN Wide
        ELSE IF Top(y) - Top(x) > 2 * MANTISSA_DIGITS THEN Wide
        ELSE IF S = <<>> THEN Zero
        ELSE IF NBitLen(S) - tz > MANTISSA_DIGITS THEN Wide
        ELSE Pack(s, NShr(S, tz), e0 + tz)

SumIsExact(x, y) ==
    /\ IsFinite(x) /\ IsFinite(y) /\ IsFinite(FAdd(x, y))
    /\ (x.m = 0 \/ y.m = 0 \/ FAdd(x, y) = ExactSum(x, y))
DiffIsExact(x, y) == SumIsExact(x, FNeg(y))

\* x * y is formed without rounding.
ProductIsExact(x, y) ==
    /\ IsFinite(x) /\ IsFinite(y) /\ IsFinite(FMul(x, y))
    /\ \/ x.m = 0
       \/ y.m = 0
       \/ LET P == NMul(Magnitude(x), Magnitude(y))
          IN  /\ NBitLen(P) <= MANTISSA_DIGITS
              /\ FMul(x, y) = Pack(Sgn(x.m) * Sgn(y.m), P, x.e + y.e)

\* C3: line(a, b, t) = a + (b - a) * t in f64.  Where t evaluates to 0 it
\* equals a in every component whose difference b - a is finite; where t
\* evaluates to 1 it equals a + (b - a), which is b in every component
\* whose difference b - a is formed without rounding.
C3_LineEndpoints ==
    (op = "line" /\ called) =>
        LET A == ValueAt(ins.a, arg)
            B == ValueAt(ins.b, arg)
            tv == ValueAt(ins.t, arg)
        IN  \A c \in Comps :
              /\ (IsZero(tv) /\ IsFinite(FSub(B[c], A[c]))) => SameF64(out[c], A[c])
              /\ tv = f64_1 => out[c] = FAdd(A[c], FSub(B[c], A[c]))
              /\ (tv = f64_1 /\ DiffIsExact(B[c], A[c])) => SameF64(out[c], B[c])

\* C3 as stated: line(a, b, t) is a wherever t is 0 and b wherever t is 1,
\* for all compatible a and b.
C3_LineEndpointsAll ==
    (op = "line" /\ called) =>
        /\ IsZero(ValueAt(ins.t, arg)) => SameValue(out, ValueAt(ins.a, arg))
        /\ ValueAt(ins.t, arg) = f64_1 => SameValue(out, ValueAt(ins.b, arg))

C3_Witness ==
    /\ op = "line"
    /\ called
    /\ IsPointFunc(ins.a)
    /\ IsPoint(ins.b)
    /\ IsFunc(ins.t)
    /\ ValueAt(ins.t, arg) = f64_1
    /\ out = ins.b
    /\ ValueAt(ins.a, arg) # ins.b

\* C4: lift_right(f) called at (a, u) and lift_left(f) called at (u, a)
\* equal f called at a, for functions and for point functions, whatever u
\* is; (p.lift_right() + q.lift_left()).call((a, b)) = p.call(a) + q.call(b).
C4_LiftRoundTrip ==
    /\ (op = "lift_right" /\ called) => out = Eval(ins.f, arg[1])
    /\ (op = "lift_left" /\ called) => out = Eval(ins.f, arg[2])
    /\ (op = "pf_lift_right" /\ called) => out = PointFunc_call(ins.p, arg[1])
    /\ (op = "pf_lift_left" /\ called) => out = PointFunc_call(ins.p, arg[2])
    /\ (op = "lift_sum" /\ called) =>
           out = Point_add(PointFunc_call(ins.p, arg[1]),
                           PointFunc_call(ins.q, arg[2]))

C4_Witness ==
    /\ op = "lift_sum"
    /\ called
    /\ arg[1] # arg[2]
    /\ PointFunc_call(ins.q, arg[1]) # PointFunc_call(ins.q, arg[2])
    /\ out = Point_add(PointFunc_call(ins.p, arg[1]),
                       PointFunc_call(ins.q, arg[2]))
    /\ out # Point_add(PointFunc_call(ins.p, arg[1]),
                       PointFunc_call(ins.q, arg[1]))

\* C5: calling a point function p at a value v yields the concrete Point
\* (p.x(v), p.y(v), p.z(v)), each component being its own component
\* function applied to v, for f64, bool, () and pair parameters alike.
C5_CallComponentwise ==
    (called /\ ty # "value" /\ IsPointFunc(shape)) =>
        /\ IsPoint(out)
        /\ out.x = Eval(shape.x, arg)
        /\ out.y = Eval(shape.y, arg)
        /\ out.z = Eval(shape.z, arg)

C5_Witness ==
    /\ op = "literal"
    /\ called
    /\ ty = "bool"
    /\ arg = TRUE
    /\ out = Point(f64_1, F(3, 0), Zero)

\* C6: for two point functions p, q and every v, (p + q).call(v) =
\* p.call(v) + q.call(v), (p - q).call(v) = p.call(v) - q.call(v) and
\* (p * q).call(v) has the components p.x(v)*q.x(v), p.y(v)*q.y(v),
\* p.z(v)*q.z(v).
C6_PointFuncArithmetic ==
    (op \in {"pf_add", "pf_sub", "pf_mul"} /\ called) =>
        LET pv == PointFunc_call(ins.p, arg)
            qv == PointFunc_call(ins.q, arg)
        IN  /\ op = "pf_add" => out = Point(FAdd(pv.x, qv.x), FAdd(pv.y, qv.y), FAdd(pv.z, qv.z))
            /\ op = "pf_sub" => out = Point(FSub(pv.x, qv.x), FSub(pv.y, qv.y), FSub(pv.z, qv.z))
            /\ op = "pf_mul" => out = Point(FMul(pv.x, qv.x), FMul(pv.y, qv.y), FMul(pv.z, qv.z))

C6_Witness ==
    /\ op = "pf_sub"
    /\ called
    /\ LET pv == PointFunc_call(ins.p, arg)
           qv == PointFunc_call(ins.q, arg)
       IN  /\ out = Point_sub(pv, qv)
           /\ out # Point_sub(qv, pv)
           /\ out.x # out.y
           /\ out.y # out.z

\* C7: a concrete Point or array C combined with a point function f acts
\* as a constant and keeps its side: (C + f).call(v) = C + f.call(v),
\* (f + C).call(v) = f.call(v) + C, (C - f).call(v) = C - f.call(v),
\* (f - C).call(v) = f.call(v) - C, (C * f).call(v) = C * f.call(v)
\* componentwise.
C7_ConcreteWithPointFunc ==
    (op \in {"c_add_f", "f_add_c", "c_sub_f", "f_sub_c", "c_mul_f"} /\ called) =>
        LET C == IF IsArray(ins.c)
                 THEN Point(ins.c.arr[1], ins.c.arr[2], ins.c.arr[3])
                 ELSE ins.c
            fv == PointFunc_call(ins.f, arg)
        IN  /\ op = "c_add_f" => out = Point_add(C, fv)
            /\ op = "f_add_c" => out = Point_add(fv, C)
            /\ op = "c_sub_f" => out = Point_sub(C, fv)
            /\ op = "f_sub_c" => out = Point_sub(fv, C)
            /\ op = "c_mul_f" =>
                   out = Point(FMul(C.x, fv.x), FMul(C.y, fv.y), FMul(C.z, fv.z))

C7_Witness ==
    /\ op = "f_sub_c"
    /\ called
    /\ IsArray(ins.c)
    /\ LET C == Point(ins.c.arr[1], ins.c.arr[2], ins.c.arr[3])
           fv == PointFunc_call(ins.f, arg)
       IN  /\ out = Point_sub(fv, C)
           /\ out # Point_sub(C, fv)
           /\ IsFinite(out.x) /\ IsFinite(out.y) /\ IsFinite(out.z)

\* C8: dot(a, b) = a.x*b.x + a.y*b.y + a.z*b.z for concrete Points; for
\* point functions the scalar function at v is the concrete dot of
\* a.call(v) and b.call(v); dot(a, b) = dot(b, a).
C8_Dot ==
    /\ op = "point_dot" =>
           /\ out = FAdd(FAdd(FMul(ins.a.x, ins.b.x), FMul(ins.a.y, ins.b.y)),
                         FMul(ins.a.z, ins.b.z))
           /\ out = Point_dot(ins.b, ins.a)
    /\ (op = "dot" /\ called) =>
           LET av == PointFunc_call(ins.p, arg)
               bv == PointFunc_call(ins.q, arg)
           IN  /\ out = FAdd(FAdd(FMul(av.x, bv.x), FMul(av.y, bv.y)),
                             FMul(av.z, bv.z))
               /\ out = Eval(PointFunc_dot(ins.q, ins.p), arg)

C8_Witness ==
    /\ op = "dot"
    /\ called
    /\ LET av == PointFunc_call(ins.p, arg)
           bv == PointFunc_call(ins.q, arg)
       IN  /\ av # bv
           /\ ~IsZero(FMul(av.x, bv.x))
           /\ ~IsZero(FMul(av.y, bv.y))
           /\ ~IsZero(FMul(av.z, bv.z))
           /\ IsFinite(out)
           /\ out = Point_dot(av, bv)

\* The cross product and the dot product spelled out on concrete Points.
CrossOf(a, b) ==
    Point(FSub(FMul(a.y, b.z), FMul(a.z, b.y)),
          FSub(FMul(a.z, b.x), FMul(a.x, b.z)),
          FSub(FMul(a.x, b.y), FMul(a.y, b.x)))
DotOf(a, b) == FAdd(FAdd(FMul(a.x, b.x), FMul(a.y, b.y)), FMul(a.z, b.z))
NegOf(a) == Point(FNeg(a.x), FNeg(a.y), FNeg(a.z))

\* Every product and difference of a x b is formed without rounding.
CrossIsExact(a, b) ==
    /\ ProductIsExact(a.y, b.z) /\ ProductIsExact(a.z, b.y)
    /\ ProductIsExact(a.z, b.x) /\ ProductIsExact(a.x, b.z)
    /\ ProductIsExact(a.x, b.y) /\ ProductIsExact(a.y, b.x)
    /\ DiffIsExact(FMul(a.y, b.z), FMul(a.z, b.y))
    /\ DiffIsExact(FMul(a.z, b.x), FMul(a.x, b.z))
    /\ DiffIsExact(FMul(a.x, b.y), FMul(a.y, b.x))

\* Every product and sum of dot(a, b) is formed without rounding.
DotIsExact(a, b) ==
    /\ ProductIsExact(a.x, b.x)
    /\ ProductIsExact(a.y, b.y)
    /\ ProductIsExact(a.z, b.z)
    /\ SumIsExact(FMul(a.x, b.x), FMul(a.y, b.y))
    /\ SumIsExact(FAdd(FMul(a.x, b.x), FMul(a.y, b.y)), FMul(a.z, b.z))

\* C9: a.cross(b).call(v) is the cross product (a.y*b.z - a.z*b.y,
\* a.z*b.x - a.x*b.z, a.x*b.y - a.y*b.x) of a.call(v) and b.call(v), and
\* a.cross(b) = -(b.cross(a)); dot(a, a.cross(b)) and dot(b, a.cross(b))
\* are 0 wherever every product, difference and sum of the evaluation is
\* formed without rounding.
C9_Cross ==
    /\ op = "point_cross" =>
           /\ out = CrossOf(ins.a, ins.b)
           /\ SamePoint(out, NegOf(Point_cross(ins.b, ins.a)))
           /\ (CrossIsExact(ins.a, ins.b) /\ DotIsExact(ins.a, out)) =>
                  IsZero(Point_dot(ins.a, out))
           /\ (CrossIsExact(ins.a, ins.b) /\ DotIsExact(ins.b, out)) =>
                  IsZero(Point_dot(ins.b, out))
    /\ (op = "cross" /\ called) =>
           LET av == PointFunc_call(ins.p, arg)
               bv == PointFunc_call(ins.q, arg)
           IN  /\ out = CrossOf(av, bv)
               /\ SamePoint(out, NegOf(PointFunc_call(PointFunc_cross(ins.q, ins.p), arg)))
               /\ (CrossIsExact(av, bv) /\ DotIsExact(av, out)) =>
                      IsZero(Eval(PointFunc_dot(ins.p, shape), arg))
               /\ (CrossIsExact(av, bv) /\ DotIsExact(bv, out)) =>
                      IsZero(Eval(PointFunc_dot(ins.q, shape), arg))

\* C9 as stated: dot(a, a.cross(b)) = dot(b, a.cross(b)) = 0 at every v.
C9_CrossOrthogonal ==
    (op = "cross" /\ called) =>
        /\ IsZero(Eval(PointFunc_dot(ins.p, shape), arg))
        /\ IsZero(Eval(PointFunc_dot(ins.q, shape), arg))

\* The orthogonality of the statement on finite operands alone: it fails
\* where a product or a difference is rounded.
CrossOrthogonalFinite ==
    (op = "cross" /\ called) =>
        LET av == PointFunc_call(ins.p, arg)
            bv == PointFunc_call(ins.q, arg)
        IN  (\A c \in Comps : IsFinite(av[c]) /\ IsFinite(bv[c])) =>
                /\ IsZero(Eval(PointFunc_dot(ins.p, shape), arg))
                /\ IsZero(Eval(PointFunc_dot(ins.q, shape), arg))

C9_Witness ==
    /\ op = "cross"
    /\ called
    /\ LET av == PointFunc_call(ins.p, arg)
           bv == PointFunc_call(ins.q, arg)
       IN  /\ CrossIsExact(av, bv)
           /\ DotIsExact(av, out)
           /\ DotIsExact(bv, out)
           /\ ~IsZero(out.x) /\ ~IsZero(out.y) /\ ~IsZero(out.z)
           /\ \A c \in Comps : ~IsZero(av[c]) /\ ~IsZero(bv[c])
           /\ IsZero(Eval(PointFunc_dot(ins.p, shape), arg))
           /\ IsZero(Eval(PointFunc_dot(ins.q, shape), arg))

\* A component function that takes one value at every parameter of the
\* model and at every parameter advanced by e.
ConstantIn(f, e) ==
    \A u \in ParamsF64 :
        /\ Eval(f, u) = Eval(f, Zero)
        /\ Eval(f, FAdd(u, e)) = Eval(f, Zero)

\* C10: for eps != 0, p.diff(eps).call(t) = (p.call(t + eps) - p.call(t)) / eps
\* on each of x, y, z; a component constant in t with a finite value has
\* derivative exactly 0 when eps is not NaN, and an axis ray has
\* derivative exactly 1 in its own component wherever t + eps is formed
\* without rounding.
C10_Diff ==
    (op = "diff" /\ called /\ ~IsZero(ins.eps)) =>
        LET hi == PointFunc_call(ins.p, FAdd(arg, ins.eps))
            lo == PointFunc_call(ins.p, arg)
        IN  \A c \in Comps :
              /\ out[c] = FDiv(FSub(hi[c], lo[c]), ins.eps)
              /\ (ConstantIn(ins.p[c], ins.eps) /\ IsFinite(lo[c]) /\ ~IsNaN(ins.eps))
                     => IsZero(out[c])
              /\ (ins.p[c].fn = "axis" /\ SumIsExact(arg, ins.eps))
                     => out[c] = f64_1

\* C10 as stated: for every eps != 0 and every t, a constant component has
\* derivative exactly 0 and an axis ray has derivative exactly 1.
C10_DiffExactDerivatives ==
    (op = "diff" /\ called /\ ~IsZero(ins.eps)) =>
        \A c \in Comps :
          /\ ConstantIn(ins.p[c], ins.eps) => IsZero(out[c])
          /\ ins.p[c].fn = "axis" => out[c] = f64_1

\* The axis-ray half of the statement on finite t and eps alone: it fails
\* where t + eps rounds back to t.
DiffAxisFinite ==
    (op = "diff" /\ called /\ ~IsZero(ins.eps) /\ IsFinite(ins.eps) /\ IsFinite(arg)) =>
        \A c \in Comps : ins.p[c].fn = "axis" => out[c] = f64_1

C10_Witness ==
    /\ op = "diff"
    /\ called
    /\ ins.eps = Half(1)
    /\ ins.p.x.fn = "axis"
    /\ IsFinite(arg) /\ ~IsZero(arg)
    /\ SumIsExact(arg, ins.eps)
    /\ out = Point(f64_1, Zero, Zero)
\* C11: p.map(f).call(u) = p.call(f(u)) for every point function p, every
\* f and every u; mapping with the identity changes no output;
\* p.map(f).map(g).call(w) = p.call(f(g(w))); math::map(a, f)(u) = a(f(u)).
C11_Map ==
    /\ (op = "map" /\ called) =>
           /\ out = PointFunc_call(ins.p, Eval(ins.f, arg))
           /\ ins.f.fn = "id" => out = PointFunc_call(ins.p, arg)
    /\ (op = "map_map" /\ called) =>
           out = PointFunc_call(ins.p, Eval(ins.f, Eval(ins.g, arg)))
    /\ (op = "map_func" /\ called) =>
           out = Eval(ins.a, Eval(ins.f, arg))

C11_Witness ==
    /\ op = "map_map"
    /\ called
    /\ ty = "pair"
    /\ ins.f.fn = "plus"
    /\ out = PointFunc_call(ins.p, Eval(ins.f, Eval(ins.g, arg)))
    /\ out # PointFunc_call(ins.p, Eval(ins.g, arg))
    /\ out.x # out.y
\* C12: a triple [a, b, c] converted to a Point has x = a, y = b, z = c and
\* converts back to [a, b, c]; a Point converts to [x, y, z]; the triple
\* converted to a point function over any parameter type is, at every
\* parameter value, the Point (a, b, c).
C12_Conversions ==
    /\ op = "into_point" =>
           /\ out.x = ins.u.arr[1]
           /\ out.y = ins.u.arr[2]
           /\ out.z = ins.u.arr[3]
    /\ op = "from_point" => out.arr = <<ins.a.x, ins.a.y, ins.a.z>>
    /\ op = "into_and_back" => out.arr = ins.u.arr
    /\ (op = "into_point_func" /\ called) =>
           out = Point(ins.u.arr[1], ins.u.arr[2], ins.u.arr[3])

C12_Witness ==
    /\ op = "into_and_back"
    /\ out.arr = ins.u.arr
    /\ out.arr[1] # out.arr[2]
    /\ out.arr[2] # out.arr[3]
    /\ out.arr[1] # out.arr[3]
    /\ \A i \in 1..3 : IsFinite(out.arr[i])
\* The f64 just below 1.0
BelowOne == FSub(f64_1, F(1, MANTISSA_DIGITS))
\* The floating tolerance of the unit norm: four units in the last place
\* of 1.0, which covers the roundings of cos, sin, the squares, the sum and
\* the square root.
NormTolerance == F(1, 50)
IsNearOne(x) ==
    /\ IsFinite(x)
    /\ ~FLt(NormTolerance, FSub(x, f64_1))
    /\ ~FLt(NormTolerance, FSub(f64_1, x))

CircleNormFinite ==
    (op = "norm" /\ ins.p = circle /\ called /\ IsFinite(arg)) => out = f64_1

LineOf(a, b, t) == FAdd(a, FMul(FSub(b, a), t))
QbezOf(a, b, c, t) == LineOf(LineOf(a, b, t), LineOf(b, c, t), t)

\* C14: qbez!(a, b, c, t) is line(line(a, b, t), line(b, c, t), t) in f64
\* at every parameter.  Where t is 0 it equals a in every component whose
\* differences are finite; where t is 1 it equals c in every component
\* whose differences b - a and c - b are formed without rounding; where t
\* is 0.5 and b - a = c - b without rounding it
\* equals b when the halves are added without rounding.  For circles
\* offset by 0, 0.5 and 1 at angle 0, x is 1.0, 1.5 and 2.0 at t = 0, 0.5
\* and 1.
C14_Qbez ==
    (op = "qbez" /\ called) =>
        LET A == ValueAt(ins.a, arg)
            B == ValueAt(ins.b, arg)
            C == ValueAt(ins.c, arg)
            tv == ValueAt(ins.t, arg)
        IN  /\ tv = arg[2]
            /\ \A c \in Comps :
                 LET ab == LineOf(A[c], B[c], tv)
                     bc == LineOf(B[c], C[c], tv)
                 IN  /\ out[c] = QbezOf(A[c], B[c], C[c], tv)
                     /\ (/\ IsZero(tv)
                         /\ IsFinite(FSub(B[c], A[c]))
                         /\ IsFinite(FSub(C[c], B[c]))
                         /\ IsFinite(FSub(bc, ab))) => SameF64(out[c], A[c])
                     /\ (/\ tv = f64_1
                         /\ DiffIsExact(B[c], A[c])
                         /\ DiffIsExact(C[c], B[c])) => SameF64(out[c], C[c])
                     /\ (/\ tv = Half(1)
                         /\ DiffIsExact(B[c], A[c])
                         /\ DiffIsExact(C[c], B[c])
                         /\ FSub(B[c], A[c]) = FSub(C[c], B[c])
                         /\ SumIsExact(A[c], FMul(FSub(B[c], A[c]), tv))
                         /\ SumIsExact(B[c], FMul(FSub(C[c], B[c]), tv))
                         /\ DiffIsExact(bc, ab)
                         /\ SumIsExact(ab, FMul(FSub(bc, ab), tv))) => SameF64(out[c], B[c])
            /\ (/\ ins.a = QbezShapes[1] /\ ins.b = QbezShapes[2]
                /\ ins.c = QbezShapes[3] /\ arg[1] = Zero) =>
                   /\ tv = Zero => (out.x = f64_1 /\ out.y = Zero)
                   /\ tv = Half(1) => (out.x = F(3, 1) /\ out.y = Zero)
                   /\ tv = f64_1 => (out.x = f64_2 /\ out.y = Zero)

\* C14 as stated: the result is a where t = 0, c where t = 1, and b at
\* t = 0.5 whenever b is the midpoint of a and c.
C14_QbezEndpoints ==
    (op = "qbez" /\ called) =>
        LET A == ValueAt(ins.a, arg)
            B == ValueAt(ins.b, arg)
            C == ValueAt(ins.c, arg)
            tv == ValueAt(ins.t, arg)
        IN  /\ IsZero(tv) => SamePoint(out, A)
            /\ tv = f64_1 => SamePoint(out, C)
            /\ (tv = Half(1) /\ \A c \in Comps : FSub(B[c], A[c]) = FSub(C[c], B[c]))
                   => SamePoint(out, B)

C14_Witness ==
    /\ op = "qbez"
    /\ called
    /\ ins.a = QbezShapes[1]
    /\ ins.b = QbezShapes[2]
    /\ ins.c = QbezShapes[3]
    /\ arg = <<Zero, Half(1)>>
    /\ out = ValueAt(ins.b, arg)
    /\ out.x = F(3, 1)
\* The cubic of De Casteljau's construction on f64 values
CasteljauOf(a, b, c, d, t) == LineOf(QbezOf(a, b, c, t), QbezOf(b, c, d, t), t)

\* C15: cbez!(a, b, c, d, t) is line(line(a, b, t), line(c, d, t), t) in
\* f64 at every parameter, and cbez!(a, b, b, c', t) is the same shape as
\* qbez!(a, b, c', t).  Where t is 0 it equals a in every component whose
\* differences are finite; where t is 1 it equals d in every component
\* whose differences b - a, d - c and d - b are formed without rounding.
\* It is not De Casteljau's cubic: for control values 1, 0, 0, 0 at t = 0.5
\* it is 0.25 and the cubic is 0.125.
C15_Cbez ==
    (op = "cbez" /\ called) =>
        LET A == ValueAt(ins.a, arg)
            B == ValueAt(ins.b, arg)
            C == ValueAt(ins.c, arg)
            D == ValueAt(ins.d, arg)
            tv == ValueAt(ins.t, arg)
        IN  /\ \A c \in Comps :
                 LET ab == LineOf(A[c], B[c], tv)
                     cd == LineOf(C[c], D[c], tv)
                 IN  /\ out[c] = LineOf(ab, cd, tv)
                     /\ (/\ IsZero(tv)
                         /\ IsFinite(FSub(B[c], A[c]))
                         /\ IsFinite(FSub(D[c], C[c]))
                         /\ IsFinite(FSub(cd, ab))) => SameF64(out[c], A[c])
                     /\ (/\ tv = f64_1
                         /\ DiffIsExact(B[c], A[c])
                         /\ DiffIsExact(D[c], C[c])
                         /\ DiffIsExact(D[c], B[c])) => SameF64(out[c], D[c])
            /\ ins.b = ins.c =>
                   /\ shape = qbez(ins.a, ins.b, ins.d, ins.t)
                   /\ out = PointFunc_call(qbez(ins.a, ins.b, ins.d, ins.t), arg)
            /\ (/\ ins.a = CbezShapes[1] /\ ins.b = CbezShapes[3]
                /\ ins.c = CbezShapes[3] /\ ins.d = CbezShapes[3]
                /\ arg = <<Zero, Half(1)>>) =>
                   /\ <<A.x, B.x, C.x, D.x>> = <<f64_1, Zero, Zero, Zero>>
                   /\ out.x = F(1, 2)
                   /\ CasteljauOf(A.x, B.x, C.x, D.x, tv) = F(1, 3)

\* C15 as stated: the result is a where t = 0 and d where t = 1.
C15_CbezEndpoints ==
    (op = "cbez" /\ called) =>
        /\ IsZero(ValueAt(ins.t, arg)) => SamePoint(out, ValueAt(ins.a, arg))
        /\ ValueAt(ins.t, arg) = f64_1 => SamePoint(out, ValueAt(ins.d, arg))

C15_Witness ==
    /\ op = "cbez"
    /\ called
    /\ ins.a = CbezShapes[1]
    /\ ins.b = CbezShapes[2]
    /\ ins.c = CbezShapes[2]
    /\ ins.d = CbezShapes[3]
    /\ arg = <<Zero, Half(1)>>
    /\ out = PointFunc_call(qbez(ins.a, ins.b, ins.d, ins.t), arg)
    /\ out.x = Half(1)
\* The staircase at t = 2m + r and t = 2m + 1 + r: n is the whole part of
\* t, r its fraction and m the number of whole steps of two.
Staircase(t) ==
    LET n == FFloor(t)
        r == FSub(t, n)
        m == FFloor(FDiv(n, f64_2))
    IN  IF IsZero(FRem(n, f64_2))
        THEN Point(FAdd(m, r), m, Zero)
        ELSE Point(FAdd(m, f64_1), FAdd(m, r), Zero)

\* C16: for every integer m >= 0 and fraction r in [0, 1), zig_zag() at
\* 2m + r is (m + r, m, 0) and at 2m + 1 + r is (m + 1, m + r, 0); zag_zig()
\* is the same with x and y exchanged.  At a whole t the point is the end
\* of the segment before it: (m + 1, m, 0) at 2m + 1 and (m, m, 0) at 2m.
C16_ZigZag ==
    (op = "literal" /\ called /\ ty = "f64" /\ IsFinite(arg) /\ ~IsNegative(arg)) =>
        /\ shape = zig_zag =>
               /\ SamePoint(out, Staircase(arg))
               /\ arg = FFloor(arg) =>
                      /\ SameF64(out.y, FFloor(FDiv(arg, f64_2)))
                      /\ SameF64(FAdd(out.x, out.y), arg)
        /\ shape = zag_zig =>
               SamePoint(out, Point(Staircase(arg).y, Staircase(arg).x, Zero))

C16_Witness ==
    /\ op = "literal"
    /\ shape = zig_zag
    /\ called
    /\ arg = Half(7)
    /\ out = Point(f64_2, Half(3), Zero)
\* x is an integer
IsWhole(x) == IsFinite(x) /\ (x.m = 0 \/ x.e >= 0)
\* y is the largest integer that is at most x
IsFloorOf(y, x) == IsWhole(y) /\ ~FLt(x, y) /\ FLt(FSub(x, y), f64_1)

\* C17: for every finite input floor() returns the largest integer less
\* than or equal to it: an integer n is returned unchanged, negative
\* integers included, and a negative input that is not an integer gives
\* an integer below it.  An infinite or NaN input is returned unchanged.
\* (circle() * floor()).call(n).x = n at n = -2, -1, 0, 1.
C17_Floor ==
    /\ (op = "floor" /\ called) =>
           /\ IsFinite(arg) => IsFloorOf(out, arg)
           /\ IsWhole(arg) => out = arg
           /\ (IsFinite(arg) /\ IsNegative(arg) /\ ~IsWhole(arg)) => FLt(out, arg)
           /\ IsInf(arg) => out = arg
           /\ IsNaN(arg) => IsNaN(out)
    /\ (op = "mul_floor" /\ called /\ ins.p = circle
        /\ arg \in {F(-2, 0), F(-1, 0), Zero, f64_1}) => out.x = arg

\* C17 as stated: for every input floor() returns the largest integer less
\* than or equal to it.
C17_FloorEveryInput ==
    (op = "floor" /\ called) => IsFloorOf(out, arg)

C17_Witness ==
    /\ op = "floor"
    /\ called
    /\ arg = Half(-3)
    /\ out = F(-2, 0)
\* The kept shape returns, at every parameter, what the shape returned
\* when it was built.
KeptOutput ==
    op = "keep" => \A v \in ParamsF64 : Apply(shape, v) = Apply(ins.f, v)

\* C18: once a kept Func or PointFunc has been built, no operation that
\* builds a new value from clones of it (clone, add, sub, mul, div,
\* lift_left, lift_right, map, diff, dot, cross, norm, line) and no call
\* changes what it returns: in every state the closures in its cells
\* return at every parameter what they returned when the shape was built,
\* and no step changes the output recorded at the first call, a later
\* call included.
C18_Immutable ==
    /\ [](op = "keep" => \A v \in ParamsF64 : Apply(shape, v) = Apply(ins.f, v))
    /\ [][(op = "keep" /\ called /\ called') => out' = out]_vars

\* The value built by the last use is one the model holds.
MadeHeld == (op = "keep" /\ uses > 0) => ValueHeld(ApplyUse(made, arg))

C18_Witness ==
    /\ op = "keep"
    /\ called
    /\ ins.f = circle
    /\ uses = Len(UsesOf(shape))
    /\ Len(heap) > 3
    /\ shape = Point(Arc(1), Arc(2), Arc(3))
    /\ arg = F(1, 2)
    /\ out.y = f64_1
    /\ out = Apply(shape, arg)
\* The quotient x / d of f64 for a zero d: an infinity whose sign is the
\* product of the signs of x and of the zero, and NaN when x is zero or NaN.
OverZero(x, d) ==
    IF IsNaN(x) \/ IsZero(x) THEN NaN
    ELSE Inf(Sgn(x.m) * SignOf(d))

\* C19: p / c and p / f at v are the f64 quotients of each component of
\* p.call(v) by c or f(v), whatever the divisor is; where the divisor is
\* zero every component is non-finite (an infinity whose sign is the
\* product of the signs of the component and of the zero, NaN for a zero
\* or NaN component).  diff with eps = 0 is NaN in
\* every component at every parameter.
C19_Degenerate ==
    /\ (op \in {"div", "div_func"} /\ called) =>
           LET P == PointFunc_call(ins.p, arg)
               d == IF op = "div" THEN ins.c ELSE Eval(ins.o, arg)
           IN  \A c \in Comps :
                 /\ out[c] = FDiv(P[c], d)
                 /\ IsZero(d) => (~IsFinite(out[c]) /\ out[c] = OverZero(P[c], d))
    /\ (op = "diff" /\ called /\ IsZero(ins.eps)) =>
           \A c \in Comps : IsNaN(out[c])

C19_Witness ==
    /\ op = "div_func"
    /\ called
    /\ ins.p = Point(one, id, one)
    /\ ins.o = neg
    /\ arg = Zero
    /\ Eval(ins.o, arg) = NegZero
    /\ out = Point(Inf(-1), NaN, Inf(-1))
\* The edges of a hyperbola at s, spelled out on f64: the bottom circle
\* and the top circle raised by height and turned by phase.
BottomAt(hy, s) == Point(FCos(FMul(s, TAU)), FSin(FMul(s, TAU)), Zero)
TopAt(hy, s) ==
    Point(FCos(FMul(FAdd(s, hy.phase), TAU)), FSin(FMul(FAdd(s, hy.phase), TAU)),
          FAdd(Zero, hy.height))

\* C20: ring(t) is line(bottom, top, t) and surface().call([s, t]) =
\* ring(t).call(s), which is bottom + (top - bottom) * t in f64 in every
\* component.  surface at [s, 0] is bottom().call(s) in every component
\* whose difference top - bottom is finite, and surface at [s, 1] is
\* top().call(s) in every component whose difference top - bottom is
\* formed without rounding.
C20_Surface ==
    /\ (op = "ring" /\ called) =>
           /\ shape = line(Hyperbola_bottom(ins.hy), Hyperbola_top(ins.hy), ins.t)
           /\ PointFunc_call(Hyperbola_bottom(ins.hy), arg) = BottomAt(ins.hy, arg)
           /\ PointFunc_call(Hyperbola_top(ins.hy), arg) = TopAt(ins.hy, arg)
           /\ \A c \in Comps :
                  out[c] = LineOf(BottomAt(ins.hy, arg)[c], TopAt(ins.hy, arg)[c], ins.t)
    /\ (op = "surface" /\ called) =>
           LET B == BottomAt(ins.hy, arg[1])
               T == TopAt(ins.hy, arg[1])
           IN  /\ out = PointFunc_call(Hyperbola_ring(ins.hy, arg[2]), arg[1])
               /\ \A c \in Comps :
                    /\ out[c] = LineOf(B[c], T[c], arg[2])
                    /\ (IsZero(arg[2]) /\ IsFinite(FSub(T[c], B[c]))) => SameF64(out[c], B[c])
                    /\ (arg[2] = f64_1 /\ DiffIsExact(T[c], B[c])) => SameF64(out[c], T[c])

\* C20 as stated: surface at [s, 0] equals bottom().call(s) and surface at
\* [s, 1] equals top().call(s).
C20_SurfaceEdges ==
    (op = "surface" /\ called) =>
        /\ IsZero(arg[2]) => SamePoint(out, PointFunc_call(Hyperbola_bottom(ins.hy), arg[1]))
        /\ arg[2] = f64_1 => SamePoint(out, PointFunc_call(Hyperbola_top(ins.hy), arg[1]))

C20_Witness ==
    /\ op = "surface"
    /\ called
    /\ ins.hy = Hyperbolas[3]
    /\ arg = <<Zero, f64_1>>
    /\ out = PointFunc_call(Hyperbola_top(ins.hy), Zero)
    /\ out.x = FNeg(f64_1)
    /\ out.z = f64_2
\* The concrete hyperbola that the HyperbolaFunc h is at the parameter a
HyperbolaAt(h, a) == Hyperbola(Eval(h.height, a), Eval(h.phase, a))

\* C21: shape construction commutes with call for the hyperbola: for every
\* HyperbolaFunc h, parameter a and remaining parameter b,
\* h.top().call((a, b)) = h.call(a).top().call(b), the same for bottom,
\* h.ring(t).call((a, b)) = h.call(a).ring(t).call(b) and
\* h.surface().call((a, p)) = h.call(a).surface().call(p); h.call(a) is the
\* hyperbola of height h.height(a) and phase h.phase(a).
C21_CallCommutes ==
    /\ (op = "func_top" /\ called) =>
           /\ out = PointFunc_call(Hyperbola_top(HyperbolaFunc_call(ins.h, arg[1])), arg[2])
           /\ out = TopAt(HyperbolaAt(ins.h, arg[1]), arg[2])
    /\ (op = "func_bottom" /\ called) =>
           /\ out = PointFunc_call(Hyperbola_bottom(HyperbolaFunc_call(ins.h, arg[1])), arg[2])
           /\ out = BottomAt(HyperbolaAt(ins.h, arg[1]), arg[2])
    /\ (op = "func_ring" /\ called) =>
           out = PointFunc_call(Hyperbola_ring(HyperbolaFunc_call(ins.h, arg[1]), ins.t),
                                arg[2])
    /\ (op = "func_surface" /\ called) =>
           /\ out = PointFunc_call(Hyperbola_surface(HyperbolaFunc_call(ins.h, arg[1])), arg[2])
           /\ out = PointFunc_call(Hyperbola_ring(HyperbolaAt(ins.h, arg[1]), arg[2][2]),
                                   arg[2][1])

C21_Witness ==
    /\ op = "func_surface"
    /\ called
    /\ ins.h = HyperbolaFuncs[2]
    /\ arg = <<Half(1), <<Zero, f64_1>>>>
    /\ HyperbolaFunc_call(ins.h, arg[1]) = Hyperbola(Half(5), Half(1))
    /\ out = PointFunc_call(Hyperbola_surface(Hyperbola(Half(5), Half(1))), arg[2])
    /\ out.x = FNeg(f64_1)
    /\ out.z = Half(5)
\* The points one recorded call appends: sample(p, n) the n points
\* p.call(i / n), i = 0..n-1; sample2(p, [n0, n1]) the n0 * n1 points
\* p.call([i / n0, j / n1]) with the point of (i, j) at place i * n1 + j.
Appended(c) ==
    IF c.f = "sample"
    THEN [q \in 1..c.n[1] |-> PointFunc_call(c.p, FDiv(F(q - 1, 0), F(c.n[1], 0)))]
    ELSE [q \in 1..(c.n[1] * c.n[2]) |->
             PointFunc_call(c.p, <<FDiv(F((q - 1) \div c.n[2], 0), F(c.n[1], 0)),
                                   FDiv(F((q - 1) % c.n[2], 0), F(c.n[2], 0))>>)]

RECURSIVE AllAppended(_)
AllAppended(log) ==
    IF log = <<>> THEN <<>>
    ELSE AllAppended(SubSeq(log, 1, Len(log) - 1)) \o Appended(log[Len(log)])

\* The parameter values a recorded call evaluates p at
SampledAt(c) ==
    UNION {{FDiv(F(i, 0), F(c.n[d], 0)) : i \in 0..(c.n[d] - 1)} : d \in 1..Len(c.n)}

\* Every point of the list is a value the model holds.
PointsHeld == \A q \in 1..Len(points) : ValueHeld(points[q])

\* C22: the point list is append-only under sampling: from new() the list
\* is, after any sequence of sample and sample2 calls, the points of the
\* calls in call order, n points p.call(i / n) in increasing i for
\* sample(p, n) and n0 * n1 points p.call([i / n0, j / n1]) in row-major
\* order for sample2(p, [n0, n1]); every call leaves the points stored
\* before it as they were and adds its own after them; and every sampled
\* parameter is in [0, 1), never 1.0.
C22_AppendOnly ==
    /\ [](/\ points = AllAppended(sampled)
          /\ \A c \in 1..Len(sampled) : \A x \in SampledAt(sampled[c]) :
                 x # f64_1 /\ FLt(x, f64_1) /\ ~FLt(x, Zero))
    /\ [][/\ Len(sampled') = Len(sampled) + 1
          /\ SubSeq(sampled', 1, Len(sampled)) = sampled
          /\ SubSeq(points', 1, Len(points)) = points
          /\ points' = points \o Appended(sampled'[Len(sampled')])]_renderer

C22_Witness ==
    /\ Len(sampled) = 2
    /\ sampled[1].f = "sample2" /\ sampled[1].n = <<2, 3>>
    /\ sampled[2].f = "sample" /\ sampled[2].n = <<3>>
    /\ Len(points) = 9
    /\ points[1] = Point(f64_1, Zero, Zero)
    /\ points[2] = Point(f64_1, Zero, FMul(Half(7), FDiv(f64_1, F(3, 0))))
    /\ points[7] = Point(Half(3), Zero, Zero)
    /\ points[9] = PointFunc_call(RenderShapes[1], FDiv(f64_2, F(3, 0)))
====
